---- MODULE Spec2Model ----
(***************************************************************************)
(* A state-machine model of xlrd2/formula.py: the two token-stream walkers *)
(* (decompile_formula and evaluate_name_formula), the cell-address decoder *)
(* and the externsheet resolution functions.                               *)
(*                                                                         *)
(* Conventions                                                             *)
(*  - A formula is a sequence of bytes (0..255), exactly as raw_formula;   *)
(*    byte offsets are 0-based as in the source, so data[pos] of the code  *)
(*    is data[pos+1] here.                                                 *)
(*  - A Python value is a record tagged by "t": None, a number (an exact   *)
(*    fraction n/d in lowest terms, standing for the float), a string (its *)
(*    sequence of character codes), or an exception raised by an operator. *)
(*  - An Operand is a record [kind, value, rank, text]; text is a string.  *)
(*  - An exception leaves the walker in status "raised" with its name.     *)
(***************************************************************************)
EXTENDS Integers, Sequences, FiniteSets, TLC

VARIABLES
    bv,        \* bk.biff_version
    py3,       \* TRUE: the interpreter is Python 3; FALSE: Python 2.7
    bk,        \* the workbook collaborator's tables
    names,     \* bk.name_obj_list, a sequence of NameObject records
    frames,    \* the activations of evaluate_name_formula, innermost last
    est,       \* outcome of the outermost evaluate_name_formula call
    probe,     \* per name: token-stream walks begun and memo writes done
    dec,       \* the activation of decompile_formula
    fin,       \* arguments of a directly called pure function
    fout       \* its result

vars == <<bv, py3, bk, names, frames, est, probe, dec, fin, fout>>

-----------------------------------------------------------------------------
(* Module-level constants of formula.py *)

FMLA_TYPE_CELL == 1
FMLA_TYPE_SHARED == 2
FMLA_TYPE_ARRAY == 4
FMLA_TYPE_COND_FMT == 8
FMLA_TYPE_DATA_VAL == 16
FMLA_TYPE_NAME == 32

oBOOL == 3
oERR == 4
oMSNG == 5
oNUM == 2
oREF == -1
oREL == -2
oSTRG == 1
oUNK == 0

LEAF_RANK == 90
FUNC_RANK == 90

STACK_ALARM_LEVEL == 5
STACK_PANIC_LEVEL == 10

tAdd == 3
tSub == 4
tMul == 5
tDiv == 6
tPower == 7
tConcat == 8
tLT == 9
tLE == 10
tEQ == 11
tGE == 12
tGT == 13
tNE == 14

sztab0 == <<-2, 4, 4, 1, 1, 1, 1, 1, 1, 1, 1, 1, 1, 1, 1, 1, 1, 1, 1, 1, 1, 1,
            1, -1, -2, -1, 8, 4, 2, 2, 3, 9, 8, 2, 3, 8, 4, 7, 5, 5, 5, 2, 4, 7,
            4, 7, 2, 2, -2, -2, -2, -2, -2, -2, -2, -2, 3, -2, -2, -2, -2, -2,
            -2, -2>>
sztab1 == <<-2, 5, 5, 1, 1, 1, 1, 1, 1, 1, 1, 1, 1, 1, 1, 1, 1, 1, 1, 1, 1, 1,
            1, -1, -2, -1, 11, 5, 2, 2, 3, 9, 9, 2, 3, 11, 4, 7, 7, 7, 7, 3, 4,
            7, 4, 7, 3, 3, -2, -2, -2, -2, -2, -2, -2, -2, 3, -2, -2, -2, -2,
            -2, -2, -2>>
sztab2 == <<-2, 5, 5, 1, 1, 1, 1, 1, 1, 1, 1, 1, 1, 1, 1, 1, 1, 1, 1, 1, 1, 1,
            1, -1, -2, -1, 11, 5, 2, 2, 3, 9, 9, 3, 4, 11, 4, 7, 7, 7, 7, 3, 4,
            7, 4, 7, 3, 3, -2, -2, -2, -2, -2, -2, -2, -2, -2, -2, -2, -2, -2,
            -2, -2, -2>>
sztab3 == <<-2, 5, 5, 1, 1, 1, 1, 1, 1, 1, 1, 1, 1, 1, 1, 1, 1, 1, 1, 1, 1, 1,
            1, -1, -2, -1, -2, -2, 2, 2, 3, 9, 9, 3, 4, 15, 4, 7, 7, 7, 7, 3, 4,
            7, 4, 7, 3, 3, -2, -2, -2, -2, -2, -2, -2, -2, -2, 25, 18, 21, 18,
            21, -2, -2>>
sztab4 == <<-2, 5, 5, 1, 1, 1, 1, 1, 1, 1, 1, 1, 1, 1, 1, 1, 1, 1, 1, 1, 1, 1,
            1, -1, -1, -1, -2, -2, 2, 2, 3, 9, 9, 3, 4, 5, 5, 9, 7, 7, 7, 3, 5,
            9, 5, 9, 3, 3, -2, -2, -2, -2, -2, -2, -2, -2, -2, 7, 7, 11, 7, 11,
            -2, -2>>

BiffVersions == {20, 21, 30, 40, 45, 50, 70, 80}

szdict(v) ==
    CASE v \in {20, 21} -> sztab0
      [] v = 30         -> sztab1
      [] v \in {40, 45} -> sztab2
      [] v \in {50, 70} -> sztab3
      [] v = 80         -> sztab4

(* The entries of func_defs the modelled formulas use.  The only other id   *)
(* a modelled formula holds is 87, which the catalog does not have.         *)
func_defs ==
    [id \in {0, 1, 10, 15, 100, 255} |->
        CASE id = 0   -> [name |-> "COUNT",  minargs |-> 0, maxargs |-> 30]
          [] id = 1   -> [name |-> "IF",     minargs |-> 1, maxargs |-> 3]
          [] id = 10  -> [name |-> "NA",     minargs |-> 0, maxargs |-> 0]
          [] id = 15  -> [name |-> "SIN",    minargs |-> 1, maxargs |-> 1]
          [] id = 100 -> [name |-> "CHOOSE", minargs |-> 2, maxargs |-> 30]
          [] id = 255 -> [name |-> "UserDefinedFunction", minargs |-> 1, maxargs |-> 30]]

listsep == ","

-----------------------------------------------------------------------------
(* Python values *)

None == [t |-> "none"]
Exc(e) == [t |-> "exc", e |-> e]
IsExc(v) == v.t = "exc"
StrV(codes) == [t |-> "str", s |-> codes]

Abs(i) == IF i < 0 THEN -i ELSE i

RECURSIVE Gcd(_, _)
Gcd(a, b) == IF b = 0 THEN a ELSE Gcd(b, a % b)

\* the number n/d (d # 0) in lowest terms with a positive denominator
NumV(n, d) ==
    LET s == IF d < 0 THEN -1 ELSE 1
        g == Gcd(Abs(n), Abs(d))
    IN  [t |-> "num", n |-> (s * n) \div g, d |-> Abs(d) \div g]

IntV(i) == NumV(i, 1)

RECURSIVE IPow(_, _)
IPow(b, e) == IF e = 0 THEN 1 ELSE b * IPow(b, e - 1)

-----------------------------------------------------------------------------
(* Characters and strings.  The strings of the modelled formulas are made   *)
(* of the characters below, so float() never meets a sign "+", an exponent, *)
(* white space, "inf" or "nan".                                             *)

Chr(c) ==
    CASE c = 34 -> "\""
      [] c = 45 -> "-"
      [] c = 46 -> "."
      [] c = 48 -> "0"
      [] c = 49 -> "1"
      [] c = 50 -> "2"
      [] c = 51 -> "3"
      [] c = 52 -> "4"
      [] c = 53 -> "5"
      [] c = 54 -> "6"
      [] c = 55 -> "7"
      [] c = 56 -> "8"
      [] c = 57 -> "9"
      [] c = 97 -> "a"
      [] c = 98 -> "b"

IsDigit(c) == c \in 48..57

\* strg.replace('"', '""') rendered as text
RECURSIVE QuoteDoubled(_)
QuoteDoubled(s) ==
    IF s = <<>> THEN ""
    ELSE (IF Head(s) = 34 THEN "\"\"" ELSE Chr(Head(s))) \o QuoteDoubled(Tail(s))

StrText(s) == "\"" \o QuoteDoubled(s) \o "\""

RECURSIVE IntCodes(_)
IntCodes(i) ==
    IF i < 10 THEN <<48 + i>> ELSE IntCodes(i \div 10) \o <<48 + (i % 10)>>

RECURSIVE Strip25(_)
Strip25(d) ==
    IF d % 2 = 0 THEN Strip25(d \div 2)
    ELSE IF d % 5 = 0 THEN Strip25(d \div 5)
    ELSE d

RECURSIVE FracCodes(_, _)
FracCodes(r, d) ==
    IF r = 0 THEN <<>>
    ELSE <<48 + ((r * 10) \div d)>> \o FracCodes((r * 10) % d, d)

(* str(x) of a float x = n/d whose decimal expansion is finite and which    *)
(* Python prints in positional notation (1e-4 <= |x| < 1e16); str of a      *)
(* string is the string itself.                                             *)
PyStr(v) ==
    CASE v.t = "str" -> v.s
      [] v.t = "num" /\ Strip25(v.d) = 1 /\ (v.n = 0 \/ Abs(v.n) * 10000 >= v.d) ->
            (IF v.n < 0 THEN <<45>> ELSE <<>>)
            \o IntCodes(Abs(v.n) \div v.d) \o <<46>>
            \o (IF Abs(v.n) % v.d = 0 THEN <<48>> ELSE FracCodes(Abs(v.n) % v.d, v.d))

EndsWithDot0(s) == Len(s) >= 2 /\ s[Len(s) - 1] = 46 /\ s[Len(s)] = 48

num2strg(num) ==
    LET s == PyStr(num)
    IN  StrV(IF EndsWithDot0(s) THEN SubSeq(s, 1, Len(s) - 2) ELSE s)

nop(x) == x

RECURSIVE DigitsVal(_)
DigitsVal(s) ==
    IF s = <<>> THEN 0 ELSE 10 * DigitsVal(SubSeq(s, 1, Len(s) - 1)) + (s[Len(s)] - 48)

\* float(x): a float is returned as it is, a string is parsed
PyFloat(v) ==
    IF v.t = "num" THEN v
    ELSE IF v.t # "str" THEN Exc("TypeError")
    ELSE
      LET neg  == Len(v.s) > 0 /\ v.s[1] = 45
          body == IF neg THEN Tail(v.s) ELSE v.s
          dots == {i \in 1..Len(body) : body[i] = 46}
          digs == SelectSeq(body, IsDigit)
          wellformed == /\ Len(digs) > 0
                        /\ Cardinality(dots) <= 1
                        /\ Len(digs) + Cardinality(dots) = Len(body)
          after == IF dots = {} THEN 0 ELSE Len(body) - (CHOOSE i \in dots : TRUE)
      IN  IF ~wellformed THEN Exc("ValueError")
          ELSE NumV((IF neg THEN -1 ELSE 1) * DigitsVal(digs), IPow(10, after))

-----------------------------------------------------------------------------
(* The operator module functions the rule tables name *)

BoolV(b) == [t |-> "bool", b |-> b]

NumLt(a, b) == a.n * b.d < b.n * a.d

RECURSIVE SeqLt(_, _)
SeqLt(s, u) ==
    IF u = <<>> THEN FALSE
    ELSE IF s = <<>> THEN TRUE
    ELSE IF Head(s) # Head(u) THEN Head(s) < Head(u)
    ELSE SeqLt(Tail(s), Tail(u))

(* x < y.  Two objects of different types are ordered by Python 2 (a number *)
(* before a string) and are not orderable in Python 3 (TypeError).          *)
PyLess(a, b, isPy3) ==
    CASE a.t = "num" /\ b.t = "num" -> BoolV(NumLt(a, b))
      [] a.t = "str" /\ b.t = "str" -> BoolV(SeqLt(a.s, b.s))
      [] a.t = "num" /\ b.t = "str" -> IF isPy3 THEN Exc("TypeError") ELSE BoolV(TRUE)
      [] a.t = "str" /\ b.t = "num" -> IF isPy3 THEN Exc("TypeError") ELSE BoolV(FALSE)

PyNot(r) == IF IsExc(r) THEN r ELSE BoolV(~r.b)

opr_add(a, b) ==
    CASE a.t = "num" /\ b.t = "num" -> NumV(a.n * b.d + b.n * a.d, a.d * b.d)
      [] a.t = "str" /\ b.t = "str" -> StrV(a.s \o b.s)
      [] OTHER -> Exc("TypeError")

opr_sub(a, b) ==
    IF a.t = "num" /\ b.t = "num" THEN NumV(a.n * b.d - b.n * a.d, a.d * b.d)
    ELSE Exc("TypeError")

opr_mul(a, b) ==
    IF a.t = "num" /\ b.t = "num" THEN NumV(a.n * b.n, a.d * b.d)
    ELSE Exc("TypeError")

opr_truediv(a, b) ==
    IF a.t = "num" /\ b.t = "num"
    THEN IF b.n = 0 THEN Exc("ZeroDivisionError") ELSE NumV(a.n * b.d, a.d * b.n)
    ELSE Exc("TypeError")

\* x ** y for an exponent that is a whole number
_opr_pow(a, b) ==
    CASE a.t # "num" \/ b.t # "num" -> Exc("TypeError")
      [] a.t = "num" /\ b.t = "num" /\ b.d = 1 /\ b.n >= 0 ->
            NumV(IPow(a.n, b.n), IPow(a.d, b.n))
      [] a.t = "num" /\ b.t = "num" /\ b.d = 1 /\ b.n < 0 ->
            IF a.n = 0 THEN Exc("ZeroDivisionError")
            ELSE NumV(IPow(a.d, -b.n), IPow(a.n, -b.n))

_opr_lt(a, b, isPy3) == PyLess(a, b, isPy3)
_opr_gt(a, b, isPy3) == PyLess(b, a, isPy3)
_opr_le(a, b, isPy3) ==
    IF a.t = b.t THEN PyNot(PyLess(b, a, isPy3)) ELSE PyLess(a, b, isPy3)
_opr_ge(a, b, isPy3) ==
    IF a.t = b.t THEN PyNot(PyLess(a, b, isPy3)) ELSE PyLess(b, a, isPy3)
_opr_eq(a, b) == BoolV(a = b)
_opr_ne(a, b) == BoolV(a # b)

_arith_argdict(kind, value) == IF kind = oNUM THEN nop(value) ELSE PyFloat(value)
_cmp_argdict(kind, value) == nop(value)
_strg_argdict(kind, value) == IF kind = oNUM THEN num2strg(value) ELSE nop(value)

binop_rules(opcd) ==
    CASE opcd = tAdd    -> [argdict |-> "arith", kind |-> oNUM,  rank |-> 30, sym |-> "+"]
      [] opcd = tSub    -> [argdict |-> "arith", kind |-> oNUM,  rank |-> 30, sym |-> "-"]
      [] opcd = tMul    -> [argdict |-> "arith", kind |-> oNUM,  rank |-> 40, sym |-> "*"]
      [] opcd = tDiv    -> [argdict |-> "arith", kind |-> oNUM,  rank |-> 40, sym |-> "/"]
      [] opcd = tPower  -> [argdict |-> "arith", kind |-> oNUM,  rank |-> 50, sym |-> "^"]
      [] opcd = tConcat -> [argdict |-> "strg",  kind |-> oSTRG, rank |-> 20, sym |-> "&"]
      [] opcd = tLT     -> [argdict |-> "cmp",   kind |-> oBOOL, rank |-> 10, sym |-> "<"]
      [] opcd = tLE     -> [argdict |-> "cmp",   kind |-> oBOOL, rank |-> 10, sym |-> "<="]
      [] opcd = tEQ     -> [argdict |-> "cmp",   kind |-> oBOOL, rank |-> 10, sym |-> "="]
      [] opcd = tGE     -> [argdict |-> "cmp",   kind |-> oBOOL, rank |-> 10, sym |-> ">="]
      [] opcd = tGT     -> [argdict |-> "cmp",   kind |-> oBOOL, rank |-> 10, sym |-> ">"]
      [] opcd = tNE     -> [argdict |-> "cmp",   kind |-> oBOOL, rank |-> 10, sym |-> "<>"]

\* argdict[kind](value), for a kind the argdict has (oNUM or oSTRG)
ArgConv(argdict, kind, value) ==
    CASE argdict = "arith" -> _arith_argdict(kind, value)
      [] argdict = "cmp"   -> _cmp_argdict(kind, value)
      [] argdict = "strg"  -> _strg_argdict(kind, value)

\* func(aval, bval) of the rule of opcd
BinFunc(opcd, a, b, isPy3) ==
    CASE opcd = tAdd    -> opr_add(a, b)
      [] opcd = tSub    -> opr_sub(a, b)
      [] opcd = tMul    -> opr_mul(a, b)
      [] opcd = tDiv    -> opr_truediv(a, b)
      [] opcd = tPower  -> _opr_pow(a, b)
      [] opcd = tConcat -> opr_add(a, b)
      [] opcd = tLT     -> _opr_lt(a, b, isPy3)
      [] opcd = tLE     -> _opr_le(a, b, isPy3)
      [] opcd = tEQ     -> _opr_eq(a, b)
      [] opcd = tGE     -> _opr_ge(a, b, isPy3)
      [] opcd = tGT     -> _opr_gt(a, b, isPy3)
      [] opcd = tNE     -> _opr_ne(a, b)

-----------------------------------------------------------------------------
(* Operands and stacks *)

Operand(akind, avalue, arank, atext) ==
    [kind |-> akind, value |-> avalue, rank |-> arank, text |-> atext]

unk_opnd == Operand(oUNK, None, 0, "?")
error_opnd == Operand(oERR, None, 0, "?")

\* a stack element that is an Operand instance (tRange can push a bare int)
IsOperand(e) == "kind" \in DOMAIN e

Ok(stk) == [ok |-> TRUE, stack |-> stk]
Fail(e) == [ok |-> FALSE, exc |-> e]

Last(stk) == stk[Len(stk)]
Front(stk, n) == SubSeq(stk, 1, Len(stk) - n)

\* parentheses also around a child of equal rank
Wrapped_equal_rank(op, rank) == IF op.rank <= rank THEN "(" \o op.text \o ")" ELSE op.text

\* '('[:r < rank] + text + ')'[:r < rank]
Wrapped(op, rank) == IF op.rank < rank THEN "(" \o op.text \o ")" ELSE op.text

\* seq[i] with Python's indexing: i < 0 counts from the end
PyIndex(stk, i) ==
    IF i < 0 THEN (IF -i <= Len(stk) THEN Ok(stk[Len(stk) + i + 1]) ELSE Fail("IndexError"))
    ELSE (IF i < Len(stk) THEN Ok(stk[i + 1]) ELSE Fail("IndexError"))

\* seq[-n:], which is the whole sequence when n = 0
PyTail(stk, n) ==
    IF n = 0 \/ n >= Len(stk) THEN stk ELSE SubSeq(stk, Len(stk) - n + 1, Len(stk))

RECURSIVE JoinText(_)
JoinText(args) ==
    IF args = <<>> THEN ""
    ELSE IF Len(args) = 1 THEN args[1].text
    ELSE args[1].text \o listsep \o JoinText(Tail(args))

AllOperands(stk) == \A i \in 1..Len(stk) : IsOperand(stk[i])

-----------------------------------------------------------------------------
(* Reading the byte buffer *)

Byte(data, p) == data[p + 1]
U16(data, p) == data[p + 1] + 256 * data[p + 2]
\* the slice data[p:p+n] has its n bytes (struct.unpack raises otherwise)
HasBytes(data, p, n) == p + n <= Len(data)

Opcode(op) == op % 32
Optype(op) == (op \div 32) % 4
Opx(op) == IF Optype(op) # 0 THEN Opcode(op) + 32 ELSE Opcode(op)

(* biffh.error_text_from_code *)
error_text_from_code ==
    [c \in {0, 7, 15, 23, 29, 36, 42} |->
        CASE c = 0  -> "#NULL!"
          [] c = 7  -> "#DIV/0!"
          [] c = 15 -> "#VALUE!"
          [] c = 23 -> "#REF!"
          [] c = 29 -> "#NAME?"
          [] c = 36 -> "#NUM!"
          [] c = 42 -> "#N/A"]

(* biffh.unpack_string_update_pos(data, pos, encoding, lenlen=1): a length  *)
(* byte, then that many single-byte characters.                             *)
unpack_string_update_pos(data, pos) ==
    IF ~HasBytes(data, pos, 1) THEN Fail("struct.error")
    ELSE LET nchars == Byte(data, pos)
         IN  [ok |-> TRUE,
              strg |-> SubSeq(data, pos + 2, IF pos + 1 + nchars <= Len(data)
                                            THEN pos + 1 + nchars ELSE Len(data)),
              newpos |-> pos + 1 + nchars]

(* biffh.unpack_unicode_update_pos(data, pos, lenlen=1) for a string stored *)
(* compressed (option bits 0x01, 0x04, 0x08 clear): a length byte, an       *)
(* options byte, then one byte per character.                               *)
unpack_unicode_update_pos(data, pos) ==
    IF ~HasBytes(data, pos, 1) THEN Fail("struct.error")
    ELSE LET nchars == Byte(data, pos)
         IN  IF nchars = 0 /\ pos + 1 >= Len(data)
             THEN [ok |-> TRUE, strg |-> <<>>, newpos |-> pos + 1]
             ELSE IF ~HasBytes(data, pos + 1, 1) THEN Fail("IndexError")
             ELSE [ok |-> TRUE,
                   strg |-> SubSeq(data, pos + 3, IF pos + 2 + nchars <= Len(data)
                                                 THEN pos + 2 + nchars ELSE Len(data)),
                   newpos |-> pos + 2 + nchars]

-----------------------------------------------------------------------------
(* evaluate_name_formula: the stack effect of each token family *)

\* aop.text and bop.text composed around sym, each wrapped when its rank is lower
BinText(aop, sym, bop, rank) == Wrapped(aop, rank) \o sym \o Wrapped(bop, rank)

\* evaluate_name_formula.do_binop
do_binop(opcd, stk, isPy3) ==
    IF Len(stk) < 2 THEN Fail("AssertionError")
    ELSE
      LET bop  == stk[Len(stk)]
          aop  == stk[Len(stk) - 1]
          rule == binop_rules(opcd)
      IN
      IF ~IsOperand(aop) \/ ~IsOperand(bop) THEN Fail("AttributeError")
      ELSE
        LET resop == Operand(rule.kind, None, rule.rank,
                             BinText(aop, rule.sym, bop, rule.rank))
        IN
        IF bop.kind \notin {oNUM, oSTRG} \/ aop.kind \notin {oNUM, oSTRG}
        THEN Ok(Append(Front(stk, 2), resop))
        ELSE IF bop.value = None \/ aop.value = None
        THEN Ok(Append(Front(stk, 2), resop))
        ELSE
          LET bval == ArgConv(rule.argdict, bop.kind, bop.value) IN
          IF IsExc(bval) THEN Fail(bval.e)
          ELSE
            LET aval == ArgConv(rule.argdict, aop.kind, aop.value) IN
            IF IsExc(aval) THEN Fail(aval.e)
            ELSE
              LET result == BinFunc(opcd, aval, bval, isPy3) IN
              IF IsExc(result) THEN Fail(result.e)
              ELSE Ok(Append(Front(stk, 2),
                        [resop EXCEPT !.value =
                            IF rule.kind = oBOOL
                            THEN (IF result.b THEN IntV(1) ELSE IntV(0))
                            ELSE result]))

unop_rules(opcode) ==
    CASE opcode = 19 -> [rank |-> 70, sym1 |-> "-", sym2 |-> ""]
      [] opcode = 18 -> [rank |-> 70, sym1 |-> "+", sym2 |-> ""]
      [] opcode = 20 -> [rank |-> 60, sym1 |-> "",  sym2 |-> "%"]

\* the lambdas of unop_rules
UnFunc(opcode, x) ==
    CASE opcode = 19 -> IF x.t = "num" THEN NumV(-x.n, x.d) ELSE Exc("TypeError")
      [] opcode = 18 -> x
      [] opcode = 20 -> IF x.t = "num" THEN NumV(x.n, x.d * 100) ELSE Exc("TypeError")

UnText(opcode, aop) ==
    LET rule == unop_rules(opcode)
    IN  rule.sym1 \o Wrapped(aop, rule.rank) \o rule.sym2

\* evaluate_name_formula.do_unaryop
do_unaryop(opcode, result_kind, stk) ==
    IF Len(stk) < 1 THEN Fail("AssertionError")
    ELSE
      LET aop == Last(stk) IN
      IF ~IsOperand(aop) THEN Fail("AttributeError")
      ELSE
        LET val == IF aop.value # None THEN UnFunc(opcode, aop.value) ELSE None IN
        IF IsExc(val) THEN Fail(val.e)
        ELSE Ok(Append(Front(stk, 1),
                       Operand(result_kind, val, unop_rules(opcode).rank,
                               UnText(opcode, aop))))

\* tAttr with subop 0x10 (Sum): the top operand becomes SUM(text)
AttrSum(stk) ==
    IF Len(stk) < 1 THEN Fail("AssertionError")
    ELSE IF ~IsOperand(Last(stk)) THEN Fail("AttributeError")
    ELSE Ok(Append(Front(stk, 1),
                   Operand(oNUM, None, FUNC_RANK, "SUM(" \o Last(stk).text \o ")")))

\* str(value) of the float a tInt holds
IntText(v) == ToString(v) \o ".0"

\* tErr, tBool, tInt: the operand pushed (withValue: the evaluator keeps the value)
Literal(opcode, data, pos, withValue) ==
    LET inx == opcode - 28
        nb  == IF inx = 2 THEN 2 ELSE 1
    IN
    IF ~HasBytes(data, pos + 1, nb) THEN Fail("struct.error")
    ELSE
      LET value == IF inx = 2 THEN U16(data, pos + 1) ELSE Byte(data, pos + 1)
          kind  == IF inx = 0 THEN oERR ELSE IF inx = 1 THEN oBOOL ELSE oNUM
          val   == IF withValue THEN IntV(value) ELSE None
      IN
      CASE inx = 2 -> Ok(<<Operand(kind, val, LEAF_RANK, IntText(value))>>)
        [] inx = 1 -> IF value > 1 THEN Fail("IndexError")
                      ELSE Ok(<<Operand(kind, val, LEAF_RANK,
                                        IF value = 1 THEN "TRUE" ELSE "FALSE")>>)
        [] inx = 0 -> IF value \notin DOMAIN error_text_from_code THEN Fail("KeyError")
                      ELSE Ok(<<Operand(kind, val, LEAF_RANK,
                                        "\"" \o error_text_from_code[value] \o "\"")>>)

\* tStr: the string and the position after it
StrToken(data, pos, v) ==
    IF v <= 70 THEN unpack_string_update_pos(data, pos + 1)
    ELSE unpack_unicode_update_pos(data, pos + 1)

(* The IF branch of tFuncVar: the kind and value the result takes, given    *)
(* the stack before the arguments are removed.                              *)
FoldIF(stk, nargs, res) ==
    LET t == PyIndex(stk, -nargs) IN
    IF ~t.ok THEN Fail(t.exc)
    ELSE
      LET testarg == t.stack IN
      IF testarg.kind \notin {oNUM, oBOOL} THEN Ok(res)
      ELSE IF testarg.value \notin {IntV(0), IntV(1)} THEN Ok(res)
      ELSE IF nargs = 2 /\ testarg.value = IntV(0)
      THEN Ok([res EXCEPT !.kind = oBOOL, !.value = IntV(0)])
      ELSE
        LET c == PyIndex(stk, -nargs + 2 - testarg.value.n) IN
        IF ~c.ok THEN Fail(c.exc)
        ELSE IF ~IsOperand(c.stack) THEN Fail("AttributeError")
        ELSE IF c.stack.kind = oMSNG
        THEN Ok([res EXCEPT !.kind = oNUM, !.value = IntV(0)])
        ELSE Ok([res EXCEPT !.kind = c.stack.kind, !.value = c.stack.value])

(* 1 <= value < nargs as Python evaluates it: None and strings are ordered  *)
(* against numbers by Python 2 (None first, strings last) and raise         *)
(* TypeError in Python 3.                                                   *)
ChooseInRange(value, nargs, isPy3) ==
    CASE value.t = "num"  -> BoolV(value.n >= value.d /\ value.n < nargs * value.d)
      [] value.t = "none" -> IF isPy3 THEN Exc("TypeError") ELSE BoolV(FALSE)
      [] value.t = "str"  -> IF isPy3 THEN Exc("TypeError") ELSE BoolV(FALSE)

\* the CHOOSE branch of tFuncVar
FoldCHOOSE(stk, nargs, res, isPy3) ==
    LET t == PyIndex(stk, -nargs) IN
    IF ~t.ok THEN Fail(t.exc)
    ELSE
      LET testarg == t.stack IN
      IF testarg.kind # oNUM THEN Ok(res)
      ELSE
        LET inrange == ChooseInRange(testarg.value, nargs, isPy3) IN
        IF IsExc(inrange) THEN Fail(inrange.e)
        ELSE IF ~inrange.b THEN Ok(res)
        ELSE
          LET chosen == stk[Len(stk) - nargs + (testarg.value.n \div testarg.value.d) + 1] IN
          IF ~IsOperand(chosen) THEN Fail("AttributeError")
          ELSE IF chosen.kind = oMSNG
          THEN Ok([res EXCEPT !.kind = oNUM, !.value = IntV(0)])
          ELSE Ok([res EXCEPT !.kind = chosen.kind, !.value = chosen.value])

\* the two unpacked fields of a tFuncVar token, or struct.error
FuncVarFields(data, pos, v) ==
    LET nb == IF v >= 40 THEN 2 ELSE 1 IN
    IF ~HasBytes(data, pos + 1, 1 + nb) THEN Fail("struct.error")
    ELSE [ok |-> TRUE,
          nargs |-> Byte(data, pos + 1),
          funcx |-> IF nb = 2 THEN U16(data, pos + 2) ELSE Byte(data, pos + 2)]

\* evaluate_name_formula, opcode 0x02 with a type class: tFuncVar
EvalFuncVarToken(data, pos, v, stk, isPy3) ==
    LET fld == FuncVarFields(data, pos, v) IN
    IF ~fld.ok THEN Fail(fld.exc)
    ELSE
      LET nargs == fld.nargs % 128
          funcx == fld.funcx % 32768
      IN
      IF funcx \notin DOMAIN func_defs THEN Ok(Append(stk, unk_opnd))
      ELSE
        LET fd == func_defs[funcx] IN
        IF ~(fd.minargs <= nargs /\ nargs <= fd.maxargs) THEN Fail("AssertionError")
        ELSE IF Len(stk) < nargs THEN Fail("AssertionError")
        ELSE IF ~AllOperands(PyTail(stk, nargs)) THEN Fail("AttributeError")
        ELSE
          LET otext == fd.name \o "(" \o JoinText(PyTail(stk, nargs)) \o ")"
              res0  == Operand(oUNK, None, FUNC_RANK, otext)
              res   == IF funcx = 1 THEN FoldIF(stk, nargs, res0)
                       ELSE IF funcx = 100 THEN FoldCHOOSE(stk, nargs, res0, isPy3)
                       ELSE Ok(res0)
          IN
          IF ~res.ok THEN Fail(res.exc)
          ELSE Ok(Append(Front(stk, Len(PyTail(stk, nargs))), res.stack))

-----------------------------------------------------------------------------
(* External/cross-sheet reference resolution.  book is the record of the    *)
(* workbook's tables; an index that the workbook leaves as None is -1.      *)

get_externsheet_local_range(book, refx) ==
    IF refx >= Len(book.externsheet_info) THEN Ok(<<-101, -101>>)
    ELSE
      LET info == book.externsheet_info[refx + 1]
          ref_recordx == info[1]
          ref_first_sheetx == info[2]
          ref_last_sheetx == info[3]
          nsheets == Len(book.all_sheets_map)
      IN
      IF ref_recordx = book.supbook_addins_inx
      THEN IF ref_first_sheetx = 65534 /\ ref_last_sheetx = 65534
           THEN Ok(<<-5, -5>>) ELSE Fail("AssertionError")
      ELSE IF ref_recordx # book.supbook_locals_inx THEN Ok(<<-4, -4>>)
      ELSE IF ref_first_sheetx = 65534 /\ ref_last_sheetx = 65534 THEN Ok(<<-1, -1>>)
      ELSE IF ref_first_sheetx = 65535 /\ ref_last_sheetx = 65535 THEN Ok(<<-2, -2>>)
      ELSE IF ~(0 <= ref_first_sheetx /\ ref_first_sheetx <= ref_last_sheetx
                /\ ref_last_sheetx < nsheets)
      THEN Ok(<<-102, -102>>)
      ELSE
        LET xlrd_sheetx1 == book.all_sheets_map[ref_first_sheetx + 1]
            xlrd_sheetx2 == book.all_sheets_map[ref_last_sheetx + 1]
        IN  IF ~(0 <= xlrd_sheetx1 /\ xlrd_sheetx1 <= xlrd_sheetx2) THEN Ok(<<-3, -3>>)
            ELSE Ok(<<xlrd_sheetx1, xlrd_sheetx2>>)

get_externsheet_local_range_b57(book, raw_extshtx, ref_first_sheetx, ref_last_sheetx) ==
    LET nsheets == Len(book.all_sheets_map) IN
    IF raw_extshtx > 0 THEN Ok(<<-4, -4>>)
    ELSE IF ref_first_sheetx = -1 /\ ref_last_sheetx = -1 THEN Ok(<<-2, -2>>)
    ELSE IF ~(0 <= ref_first_sheetx /\ ref_first_sheetx <= ref_last_sheetx
              /\ ref_last_sheetx < nsheets)
    THEN Ok(<<-103, -103>>)
    ELSE
      LET xlrd_sheetx1 == book.all_sheets_map[ref_first_sheetx + 1]
          xlrd_sheetx2 == book.all_sheets_map[ref_last_sheetx + 1]
      IN  IF ~(0 <= xlrd_sheetx1 /\ xlrd_sheetx1 <= xlrd_sheetx2) THEN Ok(<<-3, -3>>)
          ELSE Ok(<<xlrd_sheetx1, xlrd_sheetx2>>)

-----------------------------------------------------------------------------
(* Cell address decoding.  browx and bcolx are the anchor cell.             *)

\* the BIFF8 decoder with no wrap of a relative coordinate to a negative delta
adjust_cell_addr_biff8_unsigned(rowval, colval, reldelta, browx, bcolx) ==
    LET row_rel == (colval \div 32768) % 2
        col_rel == (colval \div 16384) % 2
    IN
    IF reldelta
    THEN <<rowval, colval % 256, row_rel, col_rel>>
    ELSE <<IF row_rel = 1 THEN rowval - browx ELSE rowval,
           IF col_rel = 1 THEN (colval % 256) - bcolx ELSE colval % 256,
           row_rel, col_rel>>

adjust_cell_addr_biff8(rowval, colval, reldelta, browx, bcolx) ==
    LET row_rel == (colval \div 32768) % 2
        col_rel == (colval \div 16384) % 2
        rowx == rowval
        colx == colval % 256
    IN
    IF reldelta
    THEN <<IF row_rel = 1 /\ rowx >= 32768 THEN rowx - 65536 ELSE rowx,
           IF col_rel = 1 /\ colx >= 128 THEN colx - 256 ELSE colx,
           row_rel, col_rel>>
    ELSE <<IF row_rel = 1 THEN rowx - browx ELSE rowx,
           IF col_rel = 1 THEN colx - bcolx ELSE colx,
           row_rel, col_rel>>

\* the decoder without the 14-bit mask on the row word
adjust_cell_addr_biff_le7_unmasked(rowval, colval, reldelta, browx, bcolx) ==
    adjust_cell_addr_biff8(rowval, colval + 16384 * ((rowval \div 16384) % 4),
                           reldelta, browx, bcolx)

adjust_cell_addr_biff_le7(rowval, colval, reldelta, browx, bcolx) ==
    LET row_rel == (rowval \div 32768) % 2
        col_rel == (rowval \div 16384) % 2
        rowx == rowval % 16384
        colx == colval
    IN
    IF reldelta
    THEN <<IF row_rel = 1 /\ rowx >= 8192 THEN rowx - 16384 ELSE rowx,
           IF col_rel = 1 /\ colx >= 128 THEN colx - 256 ELSE colx,
           row_rel, col_rel>>
    ELSE <<IF row_rel = 1 THEN rowx - browx ELSE rowx,
           IF col_rel = 1 THEN colx - bcolx ELSE colx,
           row_rel, col_rel>>

\* unpack("<HH", data[pos:pos+4]) or unpack("<HB", data[pos:pos+3]), then adjust
get_cell_addr(data, pos, v, reldelta, browx, bcolx) ==
    IF v >= 80
    THEN adjust_cell_addr_biff8(U16(data, pos), U16(data, pos + 2), reldelta, browx, bcolx)
    ELSE adjust_cell_addr_biff_le7(U16(data, pos), Byte(data, pos + 2), reldelta, browx, bcolx)

\* both ends of a range: unpack("<HHHH", ...) or unpack("<HHBB", ...), then adjust
get_cell_range_addr(data, pos, v, reldelta, browx, bcolx) ==
    IF v >= 80
    THEN <<adjust_cell_addr_biff8(U16(data, pos), U16(data, pos + 4),
                                  reldelta, browx, bcolx),
           adjust_cell_addr_biff8(U16(data, pos + 2), U16(data, pos + 6),
                                  reldelta, browx, bcolx)>>
    ELSE <<adjust_cell_addr_biff_le7(U16(data, pos), Byte(data, pos + 4),
                                     reldelta, browx, bcolx),
           adjust_cell_addr_biff_le7(U16(data, pos + 2), Byte(data, pos + 5),
                                     reldelta, browx, bcolx)>>

-----------------------------------------------------------------------------
(* The text of cell, range and sheet references.  An anchor that the caller *)
(* does not give (None in the source) is NoAnchor here; r1c1 is a Boolean.  *)

NoAnchor == -1

\* for 0 <= colx <= 701; the callers pass a column index of 0..255
colname(colx) ==
    LET alphabet == <<"A", "B", "C", "D", "E", "F", "G", "H", "I", "J", "K", "L", "M",
                      "N", "O", "P", "Q", "R", "S", "T", "U", "V", "W", "X", "Y", "Z">>
    IN  IF colx <= 25 THEN alphabet[colx + 1]
        ELSE alphabet[colx \div 26] \o alphabet[(colx % 26) + 1]

rownamerel(rowx, rowxrel, browx, r1c1) ==
    LET r == r1c1 \/ browx = NoAnchor IN
    IF rowxrel = 0
    THEN (IF r THEN "R" \o ToString(rowx + 1) ELSE "$" \o ToString(rowx + 1))
    ELSE IF r
    THEN (IF rowx # 0 THEN "R[" \o ToString(rowx) \o "]" ELSE "R")
    ELSE ToString(((browx + rowx) % 65536) + 1)

colnamerel(colx, colxrel, bcolx, r1c1) ==
    LET r == r1c1 \/ bcolx = NoAnchor IN
    IF colxrel = 0
    THEN (IF r THEN "C" \o ToString(colx + 1) ELSE "$" \o colname(colx))
    ELSE IF r
    THEN (IF colx # 0 THEN "C[" \o ToString(colx) \o "]" ELSE "C")
    ELSE colname((bcolx + colx) % 256)

cellnameabs(rowx, colx, r1c1) ==
    IF r1c1 THEN "R" \o ToString(rowx + 1) \o "C" \o ToString(colx + 1)
    ELSE "$" \o colname(colx) \o "$" \o ToString(rowx + 1)

cellnamerel(rowx, colx, rowxrel, colxrel, browx, bcolx, r1c1) ==
    IF rowxrel = 0 /\ colxrel = 0 THEN cellnameabs(rowx, colx, r1c1)
    ELSE
      LET r == \/ r1c1
               \/ (rowxrel # 0 /\ browx = NoAnchor)
               \/ (colxrel # 0 /\ bcolx = NoAnchor)
          c == colnamerel(colx, colxrel, bcolx, r)
          rr == rownamerel(rowx, rowxrel, browx, r)
      IN  IF r THEN rr \o c ELSE c \o rr

\* rangename2d(rlo, rhi, clo, chi), r1c1 left at its default 0
rangename2d(rlo, rhi, clo, chi) ==
    IF rhi = rlo + 1 /\ chi = clo + 1 THEN cellnameabs(rlo, clo, FALSE)
    ELSE cellnameabs(rlo, clo, FALSE) \o ":" \o cellnameabs(rhi - 1, chi - 1, FALSE)

\* coords is (rlo, rhi, clo, chi) and relflags the four flags of these
rangename2drel(coords, relflags, browx, bcolx, r1c1) ==
    LET r == \/ r1c1
             \/ ((relflags[1] # 0 \/ relflags[2] # 0) /\ browx = NoAnchor)
             \/ ((relflags[3] # 0 \/ relflags[4] # 0) /\ bcolx = NoAnchor)
    IN  cellnamerel(coords[1], coords[3], relflags[1], relflags[3], browx, bcolx, r)
        \o ":"
        \o cellnamerel(coords[2] - 1, coords[4] - 1, relflags[2], relflags[4],
                       browx, bcolx, r)

(* quotedsheetname(shnames, shx).  The sheet names of the modelled workbooks *)
(* hold no quote and no space, so a sheet's name is returned as it is; of    *)
(* the texts for a negative index all but "<<external>>" hold a space and    *)
(* are quoted.                                                               *)
quotedsheetname(shnames, shx) ==
    IF shx >= 0
    THEN (IF shx < Len(shnames) THEN Ok(shnames[shx + 1]) ELSE Fail("IndexError"))
    ELSE Ok(CASE shx = -1 -> "'?internal; any sheet?'"
              [] shx = -2 -> "'internal; deleted sheet'"
              [] shx = -3 -> "'internal; macro sheet'"
              [] shx = -4 -> "<<external>>"
              [] OTHER    -> "'?error " \o ToString(shx) \o "?'")

sheetrange(book, slo, shi) ==
    LET lo == quotedsheetname(book.sheet_names, slo)
        hi == quotedsheetname(book.sheet_names, shi - 1)
    IN  IF ~lo.ok THEN lo
        ELSE IF slo = shi - 1 THEN lo
        ELSE IF ~hi.ok THEN hi
        ELSE Ok(lo.stack \o ":" \o hi.stack)

\* Ref3D(atuple): the coords and the relflags of a box
Ref3D(atuple) ==
    [coords |-> SubSeq(atuple, 1, 6),
     relflags |-> IF Len(atuple) > 6 THEN SubSeq(atuple, 7, 12) ELSE <<0, 0, 0, 0, 0, 0>>]

rangename3d(book, ref3d) ==
    LET sh == sheetrange(book, ref3d.coords[1], ref3d.coords[2]) IN
    IF ~sh.ok THEN sh
    ELSE Ok(sh.stack \o "!" \o rangename2d(ref3d.coords[3], ref3d.coords[4],
                                            ref3d.coords[5], ref3d.coords[6]))

\* rangename3drel with sheetrangerel inlined
rangename3drel(book, ref3d, browx, bcolx, r1c1) ==
    LET c == ref3d.coords
        f == ref3d.relflags
        rngdesc == rangename2drel(SubSeq(c, 3, 6), SubSeq(f, 3, 6), browx, bcolx, r1c1)
    IN
    IF f[1] = 0 /\ f[2] = 0
    THEN LET sh == sheetrange(book, c[1], c[2]) IN
         IF ~sh.ok THEN sh ELSE Ok(sh.stack \o "!" \o rngdesc)
    ELSE IF ~(c[1] = 0 /\ c[2] - 1 = 0 /\ f[1] # 0 /\ f[2] # 0) THEN Fail("AssertionError")
    ELSE Ok(rngdesc)

-----------------------------------------------------------------------------
(* Bounds of the model *)

MaxCalls == 2       \* direct calls of evaluate_name_formula in one behaviour

-----------------------------------------------------------------------------
(* evaluate_name_formula as a state machine.  frames holds the activations, *)
(* the innermost last; a recursive call for a tName/tNameX target pushes    *)
(* one, a return pops it, an exception (nothing in this file catches one)   *)
(* discards them all.                                                       *)

Top == frames[Len(frames)]
Data(f) == names[f.nobj].raw_formula
FmlaLen(f) == names[f.nobj].basic_formula_len

\* the while condition: 0 <= pos < fmlalen
Walking == frames # <<>> /\ 0 <= Top.pos /\ Top.pos < FmlaLen(Top)
CurOp == Byte(Data(Top), Top.pos)
CurSz == szdict(bv)[Opx(CurOp) + 1]
\* a token the walker dispatches on: its size entry is not the invalid sentinel
Token(optypes, opcodes) ==
    /\ Walking
    /\ CurSz # -2
    /\ Optype(CurOp) \in optypes
    /\ Opcode(CurOp) \in opcodes

\* tracing switched on as soon as the level reaches the alarm level
NewFrame_alarm_reached(n, namex, blah, level) ==
    [nobj |-> n, namex |-> namex, level |-> level,
     blah |-> IF level >= STACK_ALARM_LEVEL THEN 1 ELSE blah,
     pos |-> 0,
     stack |-> IF names[n].basic_formula_len = 0 THEN <<unk_opnd>> ELSE <<>>,
     any_rel |-> 0, any_err |-> 0, any_external |-> 0]

\* the state on entry, up to the while loop
NewFrame(n, namex, blah, level) ==
    [nobj |-> n, namex |-> namex, level |-> level,
     blah |-> IF level > STACK_ALARM_LEVEL THEN 1 ELSE blah,
     pos |-> 0,
     stack |-> IF names[n].basic_formula_len = 0 THEN <<unk_opnd>> ELSE <<>>,
     any_rel |-> 0, any_err |-> 0, any_external |-> 0]

\* the exception recorded in the name being evaluated before it propagates
Raise_marks_name(e) ==
    /\ est' = [est EXCEPT !.status = "raised", !.exc = e]
    /\ frames' = <<>>
    /\ names' = [names EXCEPT ![Top.nobj].any_err = 1]
    /\ UNCHANGED probe

Raise(e) ==
    /\ est' = [est EXCEPT !.status = "raised", !.exc = e]
    /\ frames' = <<>>
    /\ UNCHANGED <<names, probe>>

\* evaluate_name_formula(bk, nobj, namex, blah, level) is entered
Enter(n, namex, blah, level) ==
    IF level > STACK_PANIC_LEVEL
    THEN /\ est' = [est EXCEPT !.status = "raised", !.exc = "XLRDError"]
         /\ frames' = <<>>
         /\ UNCHANGED <<names, probe>>
    ELSE /\ frames' = Append(frames, NewFrame(n, namex, blah, level))
         /\ probe' = [probe EXCEPT ![n].walks = @ + 1]
         /\ est' = [est EXCEPT !.status = "running"]
         /\ UNCHANGED names

\* the end of a token's branch without pos += sz
Advance_cursor_kept(f, sz) ==
    IF sz <= 0 THEN Raise("FormulaError")
    ELSE /\ frames' = [frames EXCEPT ![Len(frames)] = f]
         /\ UNCHANGED <<est, names, probe>>

\* the end of a token's branch: the size check, then pos += sz
Advance(f, sz) ==
    IF sz <= 0 THEN Raise("FormulaError")
    ELSE /\ frames' = [frames EXCEPT ![Len(frames)] = [f EXCEPT !.pos = @ + sz]]
         /\ UNCHANGED <<est, names, probe>>

\* a token whose whole effect is a new stack
StackStep(r, sz) ==
    IF ~r.ok THEN Raise(r.exc) ELSE Advance([Top EXCEPT !.stack = r.stack], sz)

Others == <<bv, py3, bk, dec, fin, fout>>

\* a caller evaluates name n (0-based index n - 1)
Evaluate(n) ==
    /\ frames = <<>>
    /\ dec.status # "running"
    /\ est.calls < MaxCalls
    /\ est' = [est EXCEPT !.status = "running", !.exc = "", !.calls = @ + 1]
    /\ frames' = <<NewFrame(n, n - 1, 0, 0)>>
    /\ probe' = [probe EXCEPT ![n].walks = @ + 1]
    /\ UNCHANGED names
    /\ UNCHANGED Others

EvalBinop ==
    /\ Token({0}, 3..14)
    /\ StackStep(do_binop(Opcode(CurOp), Top.stack, py3), CurSz)
    /\ UNCHANGED Others

EvalUnary ==
    /\ Token({0}, 18..20)
    /\ StackStep(do_unaryop(Opcode(CurOp), oNUM, Top.stack), CurSz)
    /\ UNCHANGED Others

EvalParen ==
    /\ Token({0}, {21})
    /\ Advance(Top, CurSz)
    /\ UNCHANGED Others

EvalMissArg ==
    /\ Token({0}, {22})
    /\ StackStep(Ok(Append(Top.stack, Operand(oMSNG, None, LEAF_RANK, ""))), CurSz)
    /\ UNCHANGED Others

EvalStr ==
    /\ Token({0}, {23})
    /\ LET r == StrToken(Data(Top), Top.pos, bv) IN
       IF ~r.ok THEN Raise(r.exc)
       ELSE StackStep(Ok(Append(Top.stack,
                         Operand(oSTRG, StrV(r.strg), LEAF_RANK, StrText(r.strg)))),
                      r.newpos - Top.pos)
    /\ UNCHANGED Others

EvalAttr ==
    /\ Token({0}, {25})
    /\ IF ~HasBytes(Data(Top), Top.pos + 1, 3) THEN Raise("struct.error")
       ELSE LET subop == Byte(Data(Top), Top.pos + 1)
                nc    == U16(Data(Top), Top.pos + 2)
            IN  IF subop = 4 THEN Advance(Top, nc * 2 + 6)
                ELSE IF subop = 16 THEN StackStep(AttrSum(Top.stack), 4)
                ELSE Advance(Top, 4)
    /\ UNCHANGED Others

EvalLiteral ==
    /\ Token({0}, 28..30)
    /\ LET r == Literal(Opcode(CurOp), Data(Top), Top.pos, TRUE) IN
       StackStep(IF r.ok THEN Ok(Top.stack \o r.stack) ELSE r, CurSz)
    /\ UNCHANGED Others

EvalFuncVar ==
    /\ Token({1, 2, 3}, {2})
    /\ StackStep(EvalFuncVarToken(Data(Top), Top.pos, bv, Top.stack, py3), CurSz)
    /\ UNCHANGED Others

\* bk.name_obj_list[tgtnamex], as a position in names (0 where IndexError)
NameAt(tgtnamex) ==
    IF tgtnamex = -1 THEN Len(names)
    ELSE IF tgtnamex < Len(names) THEN tgtnamex + 1 ELSE 0

\* the text a reference to name object tgtobj gets
NameText(tgtobj) ==
    IF tgtobj.scope = -1 THEN Ok(tgtobj.name)
    ELSE IF tgtobj.scope >= Len(bk.sheet_names) \/ tgtobj.scope < -Len(bk.sheet_names)
    THEN Fail("IndexError")
    ELSE Ok(bk.sheet_names[IF tgtobj.scope >= 0 THEN tgtobj.scope + 1
                           ELSE Len(bk.sheet_names) + tgtobj.scope + 1]
            \o "!" \o tgtobj.name)

Truth(x) == IF x # 0 THEN 1 ELSE 0

(* tName/tNameX once the target is evaluated: the frame after the operand   *)
(* for the target is pushed, or the exception.                              *)
UseName(f, tgtobj) ==
    LET bad  == tgtobj.macro # 0 \/ tgtobj.binary # 0 \/ tgtobj.any_err # 0
        text == NameText(tgtobj)
    IN
    IF ~bad /\ Len(tgtobj.stack) # 1 THEN Fail("AssertionError")
    ELSE IF ~bad /\ ~IsOperand(tgtobj.stack[1]) THEN Fail("AttributeError")
    ELSE IF ~text.ok THEN Fail(text.exc)
    ELSE
      LET res == IF bad THEN Operand(oUNK, None, 0, "?") ELSE tgtobj.stack[1] IN
      [ok |-> TRUE,
       frame |-> [f EXCEPT
          !.any_err = IF bad THEN 1 ELSE @,
          !.any_rel = IF bad THEN Truth(Truth(@) + Truth(tgtobj.any_rel)) ELSE @,
          !.stack = Append(@, [res EXCEPT !.rank = LEAF_RANK, !.text = text.stack])]]

\* tName evaluating its target whether or not the target is evaluated
EvalNameCall_unconditional ==
    /\ Token({1, 2, 3}, {3})
    /\ HasBytes(Data(Top), Top.pos + 1, 2)
    /\ LET tgtnamex == U16(Data(Top), Top.pos + 1) - 1 IN
       /\ NameAt(tgtnamex) # 0
       /\ Enter(NameAt(tgtnamex), tgtnamex, Top.blah, Top.level + 1)
    /\ UNCHANGED Others

\* tName: the target is not evaluated yet, so it is evaluated one level down
EvalNameCall ==
    /\ Token({1, 2, 3}, {3})
    /\ HasBytes(Data(Top), Top.pos + 1, 2)
    /\ LET tgtnamex == U16(Data(Top), Top.pos + 1) - 1 IN
       /\ NameAt(tgtnamex) # 0
       /\ names[NameAt(tgtnamex)].evaluated = 0
       /\ Enter(NameAt(tgtnamex), tgtnamex, Top.blah, Top.level + 1)
    /\ UNCHANGED Others

\* tName: the rest of the branch, the target being evaluated
EvalNameUse ==
    /\ Token({1, 2, 3}, {3})
    /\ IF ~HasBytes(Data(Top), Top.pos + 1, 2) THEN Raise("struct.error")
       ELSE LET tgtnamex == U16(Data(Top), Top.pos + 1) - 1 IN
            IF NameAt(tgtnamex) = 0 THEN Raise("IndexError")
            ELSE /\ names[NameAt(tgtnamex)].evaluated # 0
                 /\ LET r == UseName(Top, names[NameAt(tgtnamex)]) IN
                    IF ~r.ok THEN Raise(r.exc) ELSE Advance(r.frame, CurSz)
    /\ UNCHANGED Others

\* a bare int on the stack, not an Operand
BareInt(i) == [int |-> i]

\* a Python list of Ref3D instances, the value of a reference operand
RefsV(l) == [t |-> "refs", l |-> l]

tRangeFuncs == <<"min", "max", "min", "max", "min", "max">>
\* the intersection taking the bounds as the range operator does
tIsectFuncs_as_range == <<"min", "max", "min", "max", "min", "max">>
tIsectFuncs == <<"max", "min", "max", "min", "max", "min">>

\* the coords of the combination of the boxes boxa and boxb
do_box_funcs(box_funcs, boxa, boxb) ==
    [i \in 1..6 |->
        LET numa == boxa.coords[i]
            numb == boxb.coords[i]
        IN  IF box_funcs[i] = "min"
            THEN (IF numb < numa THEN numb ELSE numa)
            ELSE (IF numb > numa THEN numb ELSE numa)]

\* evaluate_name_formula, opcodes 0x0F, 0x10, 0x11: tIsect, tList, tRange
EvalRefBinop(opcode, stk) ==
    IF Len(stk) < 2 THEN Fail("AssertionError")
    ELSE
      LET bop == stk[Len(stk)]
          aop == stk[Len(stk) - 1]
      IN
      IF ~IsOperand(aop) \/ ~IsOperand(bop) THEN Fail("AttributeError")
      ELSE
        LET sym   == IF opcode = 15 THEN " " ELSE IF opcode = 16 THEN "," ELSE ":"
            otext == BinText(aop, sym, bop, 80)
            res   == Operand(oREF, None, IF opcode = 15 THEN 0 ELSE 80, otext)
            known == aop.value # None /\ bop.value # None
            push(r) == Ok(Append(Front(stk, 2), r))
        IN
        IF bop.kind = oERR \/ aop.kind = oERR
        THEN (IF opcode = 17 THEN push(BareInt(oERR)) ELSE push([res EXCEPT !.kind = oERR]))
        ELSE IF opcode = 16
        THEN IF bop.kind \in {oREF, oREL} /\ aop.kind \in {oREF, oREL}
             THEN LET kind == IF aop.kind = oREL \/ bop.kind = oREL THEN oREL ELSE oREF IN
                  IF ~known THEN push([res EXCEPT !.kind = kind])
                  ELSE IF ~(Len(aop.value.l) >= 1 /\ Len(bop.value.l) = 1)
                  THEN Fail("AssertionError")
                  ELSE push([res EXCEPT !.kind = kind,
                                        !.value = RefsV(aop.value.l \o bop.value.l)])
             ELSE push(res)
        ELSE IF opcode = 15 /\ (bop.kind = oUNK \/ aop.kind = oUNK) THEN push(res)
        ELSE IF bop.kind = aop.kind /\ aop.kind \in {oREF, oREL}
        THEN IF ~known THEN push([res EXCEPT !.kind = aop.kind])
             ELSE IF ~(Len(aop.value.l) = 1 /\ Len(bop.value.l) = 1)
             THEN Fail("AssertionError")
             ELSE
               LET boxa   == aop.value.l[1]
                   boxb   == bop.value.l[1]
                   coords == do_box_funcs(IF opcode = 15 THEN tIsectFuncs ELSE tRangeFuncs,
                                          boxa, boxb)
               IN  IF aop.kind = oREF
                   THEN push([res EXCEPT !.value = RefsV(<<Ref3D(coords)>>)])
                   ELSE IF boxa.relflags = boxb.relflags
                   THEN push([res EXCEPT !.kind = oREL,
                                !.value = RefsV(<<Ref3D(coords \o boxa.relflags)>>)])
                   ELSE push([res EXCEPT !.kind = oREL])
        ELSE push(res)

EvalRefOp ==
    /\ Token({0}, 15..17)
    /\ StackStep(EvalRefBinop(Opcode(CurOp), Top.stack), CurSz)
    /\ UNCHANGED Others

\* a 16-bit field read as signed (format character h)
S16(data, p) == IF U16(data, p) >= 32768 THEN U16(data, p) - 65536 ELSE U16(data, p)

(* tRef and tArea: a reference into the current sheet.  reldelta is 1 for   *)
(* every name formula and no anchor is passed; only the reference class     *)
(* (optype 1) gets a value.                                                 *)
EvalRef ==
    /\ Token({1, 2, 3}, {4, 5})
    /\ LET area == Opcode(CurOp) = 5
           nb   == IF bv >= 80 THEN (IF area THEN 8 ELSE 4) ELSE (IF area THEN 6 ELSE 3)
       IN
       IF ~HasBytes(Data(Top), Top.pos + 1, nb) THEN Raise("struct.error")
       ELSE
         LET one == get_cell_addr(Data(Top), Top.pos + 1, bv, TRUE, NoAnchor, NoAnchor)
             a   == IF area
                    THEN get_cell_range_addr(Data(Top), Top.pos + 1, bv, TRUE,
                                             NoAnchor, NoAnchor)
                    ELSE <<one, one>>
             coords   == <<0, 1, a[1][1], a[2][1] + 1, a[1][2], a[2][2] + 1>>
             relflags == <<1, 1, a[1][3], a[2][3], a[1][4], a[2][4]>>
             res == IF Optype(CurOp) = 1
                    THEN Operand(oREL, RefsV(<<Ref3D(coords \o relflags)>>), 0, "?")
                    ELSE Operand(oUNK, None, 0, "?")
         IN  Advance([Top EXCEPT !.any_rel = 1, !.stack = Append(@, res)], CurSz)
    /\ UNCHANGED Others

(* tRef3d and tArea3d: the sheet span comes from the EXTERNSHEET tables     *)
(* (BIFF8) or from the token itself (BIFF5/7).                              *)
EvalRef3d ==
    /\ Token({1, 2, 3}, {26, 27})
    /\ LET area == Opcode(CurOp) = 27
           off  == IF bv >= 80 THEN 3 ELSE 15
           nb   == IF bv >= 80 THEN (IF area THEN 8 ELSE 4) ELSE (IF area THEN 6 ELSE 3)
           data == Data(Top)
           pos  == Top.pos
       IN
       IF ~HasBytes(data, pos + off, nb) THEN Raise("struct.error")
       ELSE
         LET sh == IF bv >= 80
                   THEN get_externsheet_local_range(bk, U16(data, pos + 1))
                   ELSE get_externsheet_local_range_b57(bk, S16(data, pos + 1),
                            S16(data, pos + 11), S16(data, pos + 13))
         IN
         IF ~sh.ok THEN Raise(sh.exc)
         ELSE
           LET one == get_cell_addr(data, pos + off, bv, TRUE, NoAnchor, NoAnchor)
               a   == IF area
                      THEN get_cell_range_addr(data, pos + off, bv, TRUE,
                                               NoAnchor, NoAnchor)
                      ELSE <<one, one>>
               shx1 == sh.stack[1]
               shx2 == sh.stack[2]
               is_rel == a[1][3] # 0 \/ a[1][4] # 0 \/ a[2][3] # 0 \/ a[2][4] # 0
               coords == <<shx1, shx2 + 1, a[1][1], a[2][1] + 1, a[1][2], a[2][2] + 1>>
               ref3d  == IF is_rel
                         THEN Ref3D(coords \o <<0, 0, a[1][3], a[2][3], a[1][4], a[2][4]>>)
                         ELSE Ref3D(coords)
               text   == IF is_rel THEN rangename3drel(bk, ref3d, NoAnchor, NoAnchor, TRUE)
                         ELSE rangename3d(bk, ref3d)
           IN
           IF ~text.ok THEN Raise(text.exc)
           ELSE Advance([Top EXCEPT
                   !.any_rel = IF is_rel THEN 1 ELSE @,
                   !.any_err = IF shx1 < -1 THEN 1 ELSE @,
                   !.stack = Append(@, Operand(IF is_rel THEN oREL ELSE oREF,
                                        IF Optype(CurOp) = 1 THEN RefsV(<<ref3d>>) ELSE None,
                                        LEAF_RANK, text.stack))], CurSz)
    /\ UNCHANGED Others

(* tNameX up to the choice between the external placeholder and the target *)
(* name: the fields of the token, then the sheet span of the reference.     *)
(* ext is "dodgy or shx1 < -1"; self is the self-reference test.            *)
NameXTarget(f) ==
    LET data == Data(f)
        pos  == f.pos
    IN
    IF ~HasBytes(data, pos + 1, IF bv >= 80 THEN 4 ELSE 12) THEN Fail("struct.error")
    ELSE
      LET origrefx == IF bv >= 80 THEN U16(data, pos + 1) ELSE S16(data, pos + 1)
          tgtnamex == (IF bv >= 80 THEN U16(data, pos + 3) ELSE U16(data, pos + 11)) - 1
          refx     == IF bv >= 80 THEN origrefx
                      ELSE IF origrefx > 0 THEN origrefx - 1
                      ELSE IF origrefx < 0 THEN -origrefx - 1 ELSE origrefx
          self     == tgtnamex = f.namex
          dodgy    == (bv < 80 /\ origrefx = 0) \/ self
          sh       == IF dodgy THEN Ok(<<0, 0>>)
                      ELSE IF bv >= 80 THEN get_externsheet_local_range(bk, refx)
                      ELSE IF origrefx > 0 THEN Ok(<<-4, -4>>)
                      ELSE IF refx >= Len(bk.externsheet_type_b57) THEN Fail("IndexError")
                      ELSE IF bk.externsheet_type_b57[refx + 1] = 4 THEN Ok(<<-1, -1>>)
                      ELSE Ok(<<-666, -666>>)
      IN
      IF ~sh.ok THEN sh
      ELSE [ok |-> TRUE, tgtnamex |-> tgtnamex, origrefx |-> origrefx, self |-> self,
            ext |-> dodgy \/ sh.stack[1] < -1]

\* tNameX: the target is in this workbook and not evaluated yet
EvalNameXCall ==
    /\ Token({1, 2, 3}, {25})
    /\ LET t == NameXTarget(Top) IN
       /\ t.ok
       /\ ~t.ext
       /\ NameAt(t.tgtnamex) # 0
       /\ names[NameAt(t.tgtnamex)].evaluated = 0
       /\ Enter(NameAt(t.tgtnamex), t.tgtnamex, Top.blah, Top.level + 1)
    /\ UNCHANGED Others

\* tNameX: the rest of the branch
EvalNameXUse ==
    /\ Token({1, 2, 3}, {25})
    /\ LET t == NameXTarget(Top) IN
       IF ~t.ok THEN Raise(t.exc)
       ELSE IF t.ext
       THEN Advance([Top EXCEPT
               !.any_err = IF t.self THEN 1 ELSE @,
               !.stack = Append(@, Operand(oUNK, None, LEAF_RANK,
                    "<<Name #" \o ToString(t.tgtnamex) \o " in external(?) file #"
                    \o ToString(t.origrefx) \o ">>"))], CurSz)
       ELSE IF NameAt(t.tgtnamex) = 0 THEN Raise("IndexError")
       ELSE /\ names[NameAt(t.tgtnamex)].evaluated # 0
            /\ LET r == UseName(Top, names[NameAt(t.tgtnamex)]) IN
               IF ~r.ok THEN Raise(r.exc) ELSE Advance(r.frame, CurSz)
    /\ UNCHANGED Others

\* not_in_name_formula: tExp, tTbl, tMemArea, tRefN, tAreaN
EvalNotInName ==
    /\ \/ Token({0}, {0, 1, 2})
       \/ Token({1, 2, 3}, {6, 12, 13})
    /\ Raise("FormulaError")
    /\ UNCHANGED Others

\* tArray: the constant array is not decoded
EvalArray ==
    /\ Token({1, 2, 3}, {0})
    /\ StackStep(Ok(Append(Top.stack, unk_opnd)), CurSz)
    /\ UNCHANGED Others

\* tMemFunc: the length field is unpacked and nothing else is done
EvalMemFunc ==
    /\ Token({1, 2, 3}, {9})
    /\ IF ~HasBytes(Data(Top), Top.pos + 1, 2) THEN Raise("struct.error")
       ELSE Advance(Top, CurSz)
    /\ UNCHANGED Others

(* opcode 0x01 with a type class: tFunc, in both walkers.  The argument     *)
(* count is the second field of the catalog entry.                          *)
FuncToken(data, pos, v, stk) ==
    LET nb == IF v >= 40 THEN 2 ELSE 1 IN
    IF ~HasBytes(data, pos + 1, nb) THEN Fail("struct.error")
    ELSE
      LET funcx == IF nb = 2 THEN U16(data, pos + 1) ELSE Byte(data, pos + 1) IN
      IF funcx \notin DOMAIN func_defs THEN Ok(Append(stk, unk_opnd))
      ELSE
        LET nargs == func_defs[funcx].minargs
            args  == SubSeq(stk, Len(stk) - nargs + 1, Len(stk))
        IN
        IF Len(stk) < nargs THEN Fail("AssertionError")
        ELSE IF ~AllOperands(args) THEN Fail("AttributeError")
        ELSE Ok(Append(Front(stk, nargs),
                       Operand(oUNK, None, FUNC_RANK,
                               func_defs[funcx].name \o "(" \o JoinText(args) \o ")")))

EvalFunc ==
    /\ Token({1, 2, 3}, {1})
    /\ StackStep(FuncToken(Data(Top), Top.pos, bv, Top.stack), CurSz)
    /\ UNCHANGED Others

\* a token with no processing at all: the size entry stands in for a raise
EvalInvalid_skipped ==
    /\ Walking
    /\ CurSz = -2
    /\ Advance(Top, 1)
    /\ UNCHANGED Others

\* sz == -2: the opcode is not implemented in this BIFF version
EvalInvalid ==
    /\ Walking
    /\ CurSz = -2
    /\ Raise("FormulaError")
    /\ UNCHANGED Others

(* tExtended, tSheet, tEndSheet.  The assert before the raise holds for     *)
(* every version in which the size entry is not -2.                         *)
EvalNotImplemented ==
    /\ Token({0}, {24, 26, 27})
    /\ IF (Opcode(CurOp) = 24 /\ bv < 80) \/ (Opcode(CurOp) # 24 /\ bv >= 50)
       THEN Raise("AssertionError")
       ELSE Raise("FormulaError")
    /\ UNCHANGED Others

\* opcode in error_opcodes: tMemErr, tMemNoMem, tRefErr, tAreaErr, tRefErr3d, tAreaErr3d
EvalErrorOpcode ==
    /\ Token({1, 2, 3}, {7, 8, 10, 11, 28, 29})
    /\ Advance([Top EXCEPT !.any_err = 1, !.stack = Append(@, error_opnd)], CurSz)
    /\ UNCHANGED Others

\* the final else of the dispatch: a classed token with no branch of its own
EvalNotHandled ==
    /\ Token({1, 2, 3}, {14, 15, 24} \cup 16..23 \cup {30, 31})
    /\ Advance([Top EXCEPT !.any_err = 1], CurSz)
    /\ UNCHANGED Others

\* the result taken from the top of the stack whatever the depth
EvalReturn_top_of_stack ==
    /\ frames # <<>>
    /\ ~Walking
    /\ names' = [names EXCEPT ![Top.nobj] =
          [@ EXCEPT !.stack = Top.stack,
                    !.result = IF Top.stack = <<>> THEN None ELSE Last(Top.stack),
                    !.any_rel = Truth(Top.any_rel),
                    !.any_err = Top.any_err,
                    !.any_external = Top.any_external,
                    !.evaluated = 1]]
    /\ probe' = [probe EXCEPT ![Top.nobj].writes = @ + 1]
    /\ frames' = Front(frames, 1)
    /\ est' = IF Len(frames) = 1 THEN [est EXCEPT !.status = "done"] ELSE est
    /\ UNCHANGED Others

\* the loop has ended: the memoized fields are written, evaluated last
EvalReturn ==
    /\ frames # <<>>
    /\ ~Walking
    /\ names' = [names EXCEPT ![Top.nobj] =
          [@ EXCEPT !.stack = Top.stack,
                    !.result = IF Len(Top.stack) # 1 THEN None ELSE Top.stack[1],
                    !.any_rel = Truth(Top.any_rel),
                    !.any_err = Top.any_err,
                    !.any_external = Top.any_external,
                    !.evaluated = 1]]
    /\ probe' = [probe EXCEPT ![Top.nobj].writes = @ + 1]
    /\ frames' = Front(frames, 1)
    /\ est' = IF Len(frames) = 1 THEN [est EXCEPT !.status = "done"] ELSE est
    /\ UNCHANGED Others

-----------------------------------------------------------------------------
(* decompile_formula: the stack effect of each token family *)

\* decompile_formula.do_binop
dec_do_binop(opcd, stk) ==
    IF Len(stk) < 2 THEN Fail("AssertionError")
    ELSE
      LET bop  == stk[Len(stk)]
          aop  == stk[Len(stk) - 1]
          rule == binop_rules(opcd)
      IN
      IF ~IsOperand(aop) \/ ~IsOperand(bop) THEN Fail("AttributeError")
      ELSE Ok(Append(Front(stk, 2),
                     Operand(rule.kind, None, rule.rank,
                             BinText(aop, rule.sym, bop, rule.rank))))

\* decompile_formula.do_unaryop
dec_do_unaryop(opcode, result_kind, stk) ==
    IF Len(stk) < 1 THEN Fail("AssertionError")
    ELSE IF ~IsOperand(Last(stk)) THEN Fail("AttributeError")
    ELSE Ok(Append(Front(stk, 1),
                   Operand(result_kind, None, unop_rules(opcode).rank,
                           UnText(opcode, Last(stk)))))


(* decompile_formula, opcode 0x11: tRange.  With an Error operand the       *)
(* statement "res = oERR" rebinds res to the int 4, which is then pushed.   *)
DecRange(stk) ==
    IF Len(stk) < 2 THEN Fail("AssertionError")
    ELSE
      LET bop == stk[Len(stk)]
          aop == stk[Len(stk) - 1]
      IN
      IF ~IsOperand(aop) \/ ~IsOperand(bop) THEN Fail("AttributeError")
      ELSE IF bop.kind = oERR \/ aop.kind = oERR
      THEN Ok(Append(Front(stk, 2), BareInt(oERR)))
      ELSE Ok(Append(Front(stk, 2),
                     Operand(oREF, None, 80, BinText(aop, ":", bop, 80))))

\* decompile_formula, opcodes 0x0F and 0x10: tIsect and tList
DecRefBinop(opcode, stk) ==
    IF Len(stk) < 2 THEN Fail("AssertionError")
    ELSE
      LET bop == stk[Len(stk)]
          aop == stk[Len(stk) - 1]
      IN
      IF ~IsOperand(aop) \/ ~IsOperand(bop) THEN Fail("AttributeError")
      ELSE
        LET res  == Operand(oREF, None, IF opcode = 15 THEN 0 ELSE 80,
                            BinText(aop, IF opcode = 15 THEN " " ELSE ",", bop, 80))
            kind == IF bop.kind = oERR \/ aop.kind = oERR THEN oERR
                    ELSE IF opcode = 15
                    THEN (IF bop.kind # oUNK /\ aop.kind # oUNK
                             /\ bop.kind = oREL /\ aop.kind = oREL
                          THEN oREL ELSE oREF)
                    ELSE IF bop.kind \in {oREF, oREL} /\ aop.kind \in {oREF, oREL}
                            /\ (aop.kind = oREL \/ bop.kind = oREL)
                    THEN oREL ELSE oREF
        IN  Ok(Append(Front(stk, 2), [res EXCEPT !.kind = kind]))

\* decompile_formula, opcode 0x02 with a type class: tFuncVar
DecFuncVarToken(data, pos, v, stk) ==
    LET fld == FuncVarFields(data, pos, v) IN
    IF ~fld.ok THEN Fail(fld.exc)
    ELSE
      LET nargs0 == fld.nargs % 128
          funcx  == fld.funcx % 32768
          addin  == funcx = 255 /\ Len(stk) > 0
          nargs  == IF addin THEN nargs0 - 1 ELSE nargs0
          stk1   == IF addin THEN Front(stk, 1) ELSE stk
          known  == funcx = 255 \/ fld.funcx \in DOMAIN func_defs
      IN
      IF addin /\ ~IsOperand(Last(stk)) THEN Fail("AttributeError")
      ELSE IF ~known THEN Ok(Append(stk1, unk_opnd))
      ELSE
        LET fd == IF funcx = 255
                  THEN (IF addin
                        THEN [name |-> Last(stk).text, minargs |-> nargs, maxargs |-> nargs]
                        ELSE [name |-> "CALL_ADDIN", minargs |-> 1, maxargs |-> 30])
                  ELSE func_defs[fld.funcx]
        IN
        IF ~(fd.minargs <= nargs /\ nargs <= fd.maxargs) THEN Fail("AssertionError")
        ELSE IF Len(stk1) < nargs THEN Fail("AssertionError")
        ELSE
          LET args == IF nargs > 0 THEN PyTail(stk1, nargs) ELSE <<>> IN
          IF ~AllOperands(args) THEN Fail("AttributeError")
          ELSE Ok(Append(Front(stk1, Len(args)),
                         Operand(oUNK, None, FUNC_RANK,
                                 fd.name \o "(" \o JoinText(args) \o ")")))

-----------------------------------------------------------------------------
(* decompile_formula as a state machine over the activation dec *)

DWalking == dec.status = "running" /\ 0 <= dec.pos /\ dec.pos < dec.fmlalen
DCurOp == Byte(dec.fmla, dec.pos)
DCurSz == szdict(bv)[Opx(DCurOp) + 1]
DToken(optypes, opcodes) ==
    /\ DWalking
    /\ DCurSz # -2
    /\ Optype(DCurOp) \in optypes
    /\ Opcode(DCurOp) \in opcodes

\* the formula types in which the token with index opx is not allowed, as a bit mask
_TOKEN_NOT_ALLOWED(opx) ==
    CASE opx \in {1, 2} -> 62
      [] opx \in {15, 16, 17, 32, 57, 58, 59} -> 26
      [] opx = 35 -> 2
      [] opx \in {44, 45} -> 5
      [] OTHER -> 0

\* _TOKEN_NOT_ALLOWED(opx, 0) & fmlatype, for the token at the cursor
NotAllowed == (_TOKEN_NOT_ALLOWED(Opx(DCurOp)) \div dec.fmlatype) % 2 = 1

(* decompile_formula.unexpected_opcode: the message is printed to the log   *)
(* file, before the token is dispatched on, and nothing is raised.  The     *)
(* value is the number of messages printed once the token at the cursor has *)
(* passed the check.                                                        *)
unexpected_opcode ==
    IF DWalking /\ DCurSz # -2 /\ NotAllowed THEN dec.log + 1 ELSE dec.log

DRaise(e) == dec' = [dec EXCEPT !.status = "raised", !.exc = e, !.log = unexpected_opcode]

DStackStep(r, sz) ==
    IF ~r.ok THEN DRaise(r.exc)
    ELSE IF sz <= 0 THEN DRaise("FormulaError")
    ELSE dec' = [dec EXCEPT !.stack = r.stack, !.pos = @ + sz, !.log = unexpected_opcode]

DOthers == <<bv, py3, bk, names, frames, est, probe, fin, fout>>

\* a caller decompiles dec.fmla: the state on entry, up to the while loop
Decompile ==
    /\ dec.status = "idle"
    /\ frames = <<>>
    /\ dec' = [dec EXCEPT
          !.status = IF dec.level > STACK_PANIC_LEVEL THEN "raised" ELSE "running",
          !.exc = IF dec.level > STACK_PANIC_LEVEL THEN "XLRDError" ELSE "",
          !.blah = IF dec.level > STACK_ALARM_LEVEL THEN 1 ELSE @,
          !.pos = 0,
          !.stack = IF dec.fmlalen = 0 THEN <<unk_opnd>> ELSE <<>>]
    /\ UNCHANGED DOthers

DecBinop ==
    /\ DToken({0}, 3..14)
    /\ DStackStep(dec_do_binop(Opcode(DCurOp), dec.stack), DCurSz)
    /\ UNCHANGED DOthers

(* tExp (opcodes 0x00 and 0x01 without a type class): the reference to a    *)
(* shared formula must be the whole formula; outside cell and array         *)
(* formulas it is reported a second time.                                   *)
DecExp ==
    /\ DToken({0}, {0, 1})
    /\ IF ~(dec.pos = 0 /\ dec.fmlalen = DCurSz /\ dec.stack = <<>>)
       THEN DRaise("AssertionError")
       ELSE LET rowx == U16(dec.fmla, 1)
                colx == IF bv >= 30 THEN U16(dec.fmla, 3) ELSE Byte(dec.fmla, 3)
                text == "SHARED FMLA at rowx=" \o ToString(rowx)
                        \o " colx=" \o ToString(colx)
                again == IF dec.fmlatype % 2 = 1 \/ (dec.fmlatype \div 4) % 2 = 1
                         THEN 0 ELSE 1
            IN  dec' = [dec EXCEPT !.stack = <<Operand(oUNK, None, LEAF_RANK, text)>>,
                                   !.pos = @ + DCurSz,
                                   !.log = unexpected_opcode + again]
    /\ UNCHANGED DOthers

\* the final else of the dispatch of opcodes without a type class: tTbl
DecUnhandled ==
    /\ DToken({0}, {2})
    /\ DRaise("FormulaError")
    /\ UNCHANGED DOthers

DecFunc ==
    /\ DToken({1, 2, 3}, {1})
    /\ DStackStep(FuncToken(dec.fmla, dec.pos, bv, dec.stack), DCurSz)
    /\ UNCHANGED DOthers

DecRefOp ==
    /\ DToken({0}, {15, 16})
    /\ DStackStep(DecRefBinop(Opcode(DCurOp), dec.stack), DCurSz)
    /\ UNCHANGED DOthers

DecRangeOp ==
    /\ DToken({0}, {17})
    /\ DStackStep(DecRange(dec.stack), DCurSz)
    /\ UNCHANGED DOthers

DecUnary ==
    /\ DToken({0}, 18..20)
    /\ DStackStep(dec_do_unaryop(Opcode(DCurOp), oNUM, dec.stack), DCurSz)
    /\ UNCHANGED DOthers

DecParen ==
    /\ DToken({0}, {21})
    /\ DStackStep(Ok(dec.stack), DCurSz)
    /\ UNCHANGED DOthers

DecMissArg ==
    /\ DToken({0}, {22})
    /\ DStackStep(Ok(Append(dec.stack, Operand(oMSNG, None, LEAF_RANK, ""))), DCurSz)
    /\ UNCHANGED DOthers

DecStr ==
    /\ DToken({0}, {23})
    /\ LET r == StrToken(dec.fmla, dec.pos, bv) IN
       IF ~r.ok THEN DRaise(r.exc)
       ELSE DStackStep(Ok(Append(dec.stack,
                          Operand(oSTRG, None, LEAF_RANK, StrText(r.strg)))),
                       r.newpos - dec.pos)
    /\ UNCHANGED DOthers

DecAttr ==
    /\ DToken({0}, {25})
    /\ IF ~HasBytes(dec.fmla, dec.pos + 1, 3) THEN DRaise("struct.error")
       ELSE LET subop == Byte(dec.fmla, dec.pos + 1)
                nc    == U16(dec.fmla, dec.pos + 2)
            IN  IF subop = 4 THEN DStackStep(Ok(dec.stack), nc * 2 + 6)
                ELSE IF subop = 16 THEN DStackStep(AttrSum(dec.stack), 4)
                ELSE DStackStep(Ok(dec.stack), 4)
    /\ UNCHANGED DOthers

DecLiteral ==
    /\ DToken({0}, 28..30)
    /\ LET r == Literal(Opcode(DCurOp), dec.fmla, dec.pos, FALSE) IN
       DStackStep(IF r.ok THEN Ok(dec.stack \o r.stack) ELSE r, DCurSz)
    /\ UNCHANGED DOthers

DecFuncVar ==
    /\ DToken({1, 2, 3}, {2})
    /\ DStackStep(DecFuncVarToken(dec.fmla, dec.pos, bv, dec.stack), DCurSz)
    /\ UNCHANGED DOthers

\* sz == -2: the opcode is not implemented in this BIFF version
DecInvalid ==
    /\ DWalking
    /\ DCurSz = -2
    /\ DRaise("FormulaError")
    /\ UNCHANGED DOthers

\* tExtended, tSheet, tEndSheet
DecNotImplemented ==
    /\ DToken({0}, {24, 26, 27})
    /\ IF (Opcode(DCurOp) = 24 /\ bv < 80) \/ (Opcode(DCurOp) # 24 /\ bv >= 50)
       THEN DRaise("AssertionError")
       ELSE DRaise("FormulaError")
    /\ UNCHANGED DOthers

\* opcode in error_opcodes
DecErrorOpcode ==
    /\ DToken({1, 2, 3}, {7, 8, 10, 11, 28, 29})
    /\ DStackStep(Ok(Append(dec.stack, error_opnd)), DCurSz)
    /\ UNCHANGED DOthers

\* the final else of the dispatch
DecNotHandled ==
    /\ DToken({1, 2, 3}, {14, 15, 24} \cup 16..23 \cup {30, 31})
    /\ DStackStep(Ok(dec.stack), DCurSz)
    /\ UNCHANGED DOthers

\* a best-effort result: the text of the top operand of any non-empty stack
DecResult_best_effort(stk) ==
    IF stk = <<>> THEN Ok(None)
    ELSE IF ~IsOperand(Last(stk)) THEN Fail("AttributeError")
    ELSE Ok([t |-> "text", text |-> Last(stk).text])

\* the value decompile_formula returns for a final stack, or the exception
DecResult(stk) ==
    IF Len(stk) # 1 THEN Ok(None)
    ELSE IF ~IsOperand(stk[1]) THEN Fail("AttributeError")
    ELSE Ok([t |-> "text", text |-> stk[1].text])

\* the loop has ended: the text of the single operand, or None
DecReturn ==
    /\ dec.status = "running"
    /\ ~DWalking
    /\ LET r == DecResult(dec.stack) IN
       IF ~r.ok THEN DRaise(r.exc)
       ELSE dec' = [dec EXCEPT !.status = "returned", !.result = r.stack]
    /\ UNCHANGED DOthers

-----------------------------------------------------------------------------
(* Token streams as the workbook stores them *)

tIntTok(i) == <<30, i % 256, i \div 256>>
tBoolTok(b) == <<29, b>>
tErrTok(c) == <<28, c>>
tStrTok(codes, v) ==
    IF v <= 70 THEN <<23, Len(codes)>> \o codes ELSE <<23, Len(codes), 0>> \o codes
tMissArgTok == <<22>>
tParenTok == <<21>>
tRangeTok == <<17>>
tAttrSumTok == <<25, 16, 0, 0>>
binopTok(opcd) == <<opcd>>
tFuncVarTok(nargs, funcx, v) ==
    IF v >= 40 THEN <<34, nargs, funcx % 256, funcx \div 256>> ELSE <<34, nargs, funcx>>
\* tName with the 1-based index of the target, padded to the token's size
tNameTok(inx, v) ==
    <<35, inx % 256, inx \div 256>>
    \o [i \in 1..(szdict(v)[36] - 3) |-> 0]

-----------------------------------------------------------------------------
(* The state before any call *)

\* a NameObject as book.py leaves it after reading the NAME record
NameObject(nm, data) ==
    [name |-> nm, raw_formula |-> data, basic_formula_len |-> Len(data),
     scope |-> -1, macro |-> 0, binary |-> 0,
     evaluated |-> 0, stack |-> None, result |-> None,
     any_rel |-> 0, any_err |-> 0, any_external |-> 0]

(* decompile_formula(bk, fmla, len(fmla), fmlatype) not yet called; log     *)
(* counts the messages about a token met in a formula type that does not    *)
(* allow it.                                                                *)
NoDecompile(fmla, fmlatype) ==
    [status |-> "idle", exc |-> "", fmla |-> fmla, fmlalen |-> Len(fmla),
     fmlatype |-> fmlatype, blah |-> 0, level |-> 0,
     pos |-> 0, stack |-> <<>>, result |-> None, log |-> 0]

NoEvaluate == [status |-> "idle", exc |-> "", calls |-> 0]

NoBook == [sheet_names |-> <<"Sheet1">>]

\* one defined name "n1" holding fmla; the same bytes are what a caller decompiles
OneName(fmla) ==
    /\ bk = NoBook
    /\ names = <<NameObject("n1", fmla)>>
    /\ frames = <<>>
    /\ est = NoEvaluate
    /\ probe = <<[walks |-> 0, writes |-> 0]>>
    /\ dec = NoDecompile(fmla, FMLA_TYPE_NAME)
    /\ fin = None
    /\ fout = None

-----------------------------------------------------------------------------
(* SpecLit: name formulas "operand operand operator" over literals *)

LitInts == {0, 1, 3, 4, 9}
LitStrs == {<<>>, <<49>>, <<51>>, <<97>>, <<45, 49>>}

\* Number and String literals, and SUM(3) whose value the evaluator leaves undetermined
LitOperands(v) ==
    {tIntTok(i) : i \in LitInts}
    \cup {tStrTok(c, v) : c \in LitStrs}
    \cup {tIntTok(3) \o tAttrSumTok}

InitLit ==
    /\ bv \in {70, 80}
    /\ py3 \in BOOLEAN
    /\ \E a \in LitOperands(bv), b \in LitOperands(bv), opcd \in tAdd..tNE :
          OneName(a \o b \o binopTok(opcd))

NextLit ==
    \/ \E n \in 1..Len(names) : Evaluate(n)
    \/ EvalLiteral
    \/ EvalStr
    \/ EvalAttr
    \/ EvalBinop
    \/ EvalReturn

SpecLit == InitLit /\ [][NextLit]_vars

\* the operands and the operator of the formula of name n1
LitFormula(a, b, opcd) == names[1].raw_formula = a \o b \o binopTok(opcd)
PlainLiterals == {tIntTok(i) : i \in LitInts} \cup {tStrTok(c, bv) : c \in LitStrs}
LitOp == names[1].raw_formula[Len(names[1].raw_formula)]
BothLiteral == \E a \in PlainLiterals, b \in PlainLiterals : LitFormula(a, b, LitOp)
Finished == est.status \in {"done", "raised"}

(* C2: every name formula of two Number/String literals and one binary      *)
(* arithmetic or concatenation operator is folded: the call returns, the    *)
(* result has the operator's kind and a value, the tokens for "3"+4 give    *)
(* Number 7, and with an undetermined operand the result keeps the kind and *)
(* the text and has value None.                                             *)
C2_LiteralArithmeticFolds ==
    (Finished /\ LitOp \in tAdd..tConcat) =>
        /\ est.status = "done"
        /\ names[1].result.kind = binop_rules(LitOp).kind
        /\ BothLiteral <=> names[1].result.value # None
        /\ LitFormula(tStrTok(<<51>>, bv), tIntTok(4), tAdd)
              => names[1].result.value = IntV(7)
        /\ LitFormula(tIntTok(3), tIntTok(4), tConcat)
              => names[1].result.value = StrV(<<51, 52>>)

(* C3: a comparison operator whose two operand values are present folds to  *)
(* a Boolean operand of value 0 or 1 without raising, a String compared     *)
(* with a Number included, and the tokens for "1">9 fold to false (0).      *)
C3_ComparisonFolds ==
    (Finished /\ LitOp \in tLT..tNE /\ BothLiteral) =>
        /\ est.status = "done"
        /\ names[1].result.kind = oBOOL
        /\ names[1].result.value \in {IntV(0), IntV(1)}
        /\ LitFormula(tStrTok(<<49>>, bv), tIntTok(9), tGT)
              => names[1].result.value = IntV(0)

-----------------------------------------------------------------------------
(* Bounded sets of token streams *)

MaxTokens == 3      \* tokens in an enumerated formula

RECURSIVE TokSeqs(_, _)
TokSeqs(alphabet, n) ==
    IF n = 0 THEN {<<>>}
    ELSE LET shorter == TokSeqs(alphabet, n - 1)
         IN  shorter \cup {t \o f : t \in alphabet, f \in shorter}

-----------------------------------------------------------------------------
(* SpecDecomp: decompile_formula over well-formed and malformed streams *)

DecompAlphabet ==
    {tIntTok(1), tErrTok(7), binopTok(tAdd), tRangeTok, tMissArgTok, tParenTok}

InitDecomp ==
    /\ bv \in {70, 80}
    /\ py3 \in BOOLEAN
    /\ bk = NoBook
    /\ names = <<>>
    /\ frames = <<>>
    /\ est = NoEvaluate
    /\ probe = <<>>
    /\ \E f \in TokSeqs(DecompAlphabet, MaxTokens) : dec = NoDecompile(f, FMLA_TYPE_CELL)
    /\ fin = None
    /\ fout = None

NextDecomp ==
    \/ Decompile
    \/ DecLiteral
    \/ DecBinop
    \/ DecRangeOp
    \/ DecParen
    \/ DecMissArg
    \/ DecReturn

SpecDecomp == InitDecomp /\ [][NextDecomp]_vars

Text(s) == [t |-> "text", text |-> s]
Exhausted == dec.status = "running" /\ ~DWalking

(* C1: when the token stream is exhausted, decompile_formula returns the    *)
(* text of the remaining operand when exactly one operand is on the stack,  *)
(* returns None for every other stack depth (0, or 2 and more), and returns *)
(* a text in no other case.                                                 *)
C1_TextIffOneOperand ==
    [][Exhausted =>
         IF Len(dec.stack) = 1 /\ IsOperand(dec.stack[1])
         THEN dec'.status = "returned" /\ dec'.result = Text(dec.stack[1].text)
         ELSE IF Len(dec.stack) # 1
         THEN dec'.status = "returned" /\ dec'.result = None
         ELSE dec'.status = "raised" /\ dec'.result = None]_vars

C1_Witness ==
    /\ dec.status = "returned"
    /\ Len(dec.stack) = 1
    /\ dec.result = Text("1.0+1.0")

-----------------------------------------------------------------------------
(* SpecPrec: both walkers over the same streams of literals and operators *)

tUminus == 19

PrecAlphabet ==
    {tIntTok(1), tIntTok(2), binopTok(tAdd), binopTok(tMul), binopTok(tSub),
     <<tUminus>>, tParenTok, tMissArgTok, tStrTok(<<97>>, 80)}

\* the token streams Excel stores for (1+2)*3 and for 1+2*3
ParenFormula ==
    tIntTok(1) \o tIntTok(2) \o binopTok(tAdd) \o tParenTok \o tIntTok(3) \o binopTok(tMul)
NoParenFormula ==
    tIntTok(1) \o tIntTok(2) \o tIntTok(3) \o binopTok(tMul) \o binopTok(tAdd)

\* the token streams Excel stores for 1+2+1 and for 1-(2-1)
SameRankFormula ==
    tIntTok(1) \o tIntTok(2) \o binopTok(tAdd) \o tIntTok(1) \o binopTok(tAdd)
RightNestedFormula ==
    tIntTok(1) \o tIntTok(2) \o tIntTok(1) \o binopTok(tSub) \o tParenTok \o binopTok(tSub)

InitPrec ==
    /\ bv \in {70, 80}
    /\ py3 \in BOOLEAN
    /\ \E f \in TokSeqs(PrecAlphabet, MaxTokens)
              \cup {ParenFormula, NoParenFormula, SameRankFormula, RightNestedFormula} :
          OneName(f)

NextPrec ==
    \/ \E n \in 1..Len(names) : Evaluate(n)
    \/ EvalLiteral
    \/ EvalBinop
    \/ EvalUnary
    \/ EvalParen
    \/ EvalMissArg
    \/ EvalReturn
    \/ Decompile
    \/ DecLiteral
    \/ DecBinop
    \/ DecUnary
    \/ DecParen
    \/ DecMissArg
    \/ DecReturn

SpecPrec == InitPrec /\ [][NextPrec]_vars

\* a child's text inside an operator of the given rank
Child(op, rank) == IF op.rank < rank THEN "(" \o op.text \o ")" ELSE op.text

\* stack after is stack before with its two top operands replaced by one for opcd
BinopEffect(before, after, opcd) ==
    LET rule == binop_rules(opcd)
        aop  == before[Len(before) - 1]
        bop  == before[Len(before)]
        res  == after[Len(after)]
    IN  /\ Len(after) = Len(before) - 1
        /\ SubSeq(after, 1, Len(after) - 1) = SubSeq(before, 1, Len(before) - 2)
        /\ res.kind = rule.kind
        /\ res.rank = rule.rank
        /\ res.text = Child(aop, rule.rank) \o rule.sym \o Child(bop, rule.rank)

-----------------------------------------------------------------------------
(* SpecFunc: a function call with a variable argument count.  The formula   *)
(* is an optional operand that does not belong to the call, the arguments,  *)
(* then tFuncVar with the number of arguments and the function id.          *)

MaxArgs == 3        \* arguments of an enumerated call

\* 0, 1, 10, 20, a missing argument, and SUM(3): a Number of undetermined value
ArgAlphabet ==
    {tIntTok(0), tIntTok(1), tIntTok(10), tIntTok(20), tMissArgTok,
     tIntTok(3) \o tAttrSumTok}

RECURSIVE Concat(_)
Concat(ss) == IF ss = <<>> THEN <<>> ELSE Head(ss) \o Concat(Tail(ss))

\* argument lists as sequences of token streams, one per argument
RECURSIVE ArgLists(_)
ArgLists(n) ==
    IF n = 0 THEN {<<>>}
    ELSE LET shorter == ArgLists(n - 1)
         IN  shorter \cup {Append(l, a) : l \in {x \in shorter : Len(x) = n - 1},
                                          a \in ArgAlphabet}

FuncIds == {1, 15, 100, 87}

Call(prefix, args, funcx) ==
    prefix \o Concat(args) \o tFuncVarTok(Len(args), funcx, bv)

\* the token stream for CHOOSE(2,10,20,30)
Choose2Of3 == <<tIntTok(2), tIntTok(10), tIntTok(20), tIntTok(30)>>

InitFunc ==
    /\ bv \in {30, 80}
    /\ py3 \in BOOLEAN
    /\ \E prefix \in {<<>>, tIntTok(7)}, funcx \in FuncIds,
          args \in ArgLists(MaxArgs) \cup {Choose2Of3} :
          OneName(Call(prefix, args, funcx))

NextFunc ==
    \/ \E n \in 1..Len(names) : Evaluate(n)
    \/ EvalLiteral
    \/ EvalMissArg
    \/ EvalAttr
    \/ EvalFuncVar
    \/ EvalReturn
    \/ Decompile
    \/ DecLiteral
    \/ DecMissArg
    \/ DecAttr
    \/ DecFuncVar
    \/ DecReturn

SpecFunc == InitFunc /\ [][NextFunc]_vars

\* the call the evaluator is at: its fields, its arguments, and the operand pushed
AtCall(funcx, lo, hi) ==
    /\ EvalFuncVar
    /\ FuncVarFields(Data(Top), Top.pos, bv).funcx = funcx
    /\ FuncVarFields(Data(Top), Top.pos, bv).nargs \in lo..hi
    /\ Len(Top.stack) >= FuncVarFields(Data(Top), Top.pos, bv).nargs
CallNargs == FuncVarFields(Data(Top), Top.pos, bv).nargs
CallArg(i) == Top.stack[Len(Top.stack) - CallNargs + i]
CallResult == frames'[Len(frames')].stack[Len(frames'[Len(frames')].stack)]
\* what folding to an argument gives: its kind and value, Number 0 if it is missing
FoldsTo(res, arg) ==
    IF arg.kind = oMSNG THEN res.kind = oNUM /\ res.value = IntV(0)
    ELSE res.kind = arg.kind /\ res.value = arg.value

(* C5: IF with 1 to 3 arguments never raises; with a condition of kind      *)
(* Number or Boolean and value 1 (resp. 0) whose true (resp. false) branch  *)
(* is among the arguments the result takes that branch's kind and value     *)
(* (Number 0 for a missing branch); with a condition whose kind or value is *)
(* not known the result is Unknown with value None.                         *)
C5_IfFolds ==
    [][AtCall(1, 1, 3) =>
         /\ est'.status # "raised"
         /\ LET cond   == CallArg(1)
                branch == IF cond.value = IntV(1) THEN 2 ELSE 3
            IN  IF cond.kind \in {oNUM, oBOOL} /\ cond.value \in {IntV(0), IntV(1)}
                THEN branch <= CallNargs => FoldsTo(CallResult, CallArg(branch))
                ELSE CallResult.kind = oUNK /\ CallResult.value = None]_vars

(* C6: CHOOSE(i, v1..vn) never raises; the result takes the kind and value  *)
(* of v_k (Number 0 for a missing v_k) when i is a Number of known value k  *)
(* with 1 <= k <= n, and is Unknown with value None in every other case.    *)
C6_ChooseFolds ==
    [][AtCall(100, 2, 30) =>
         /\ est'.status # "raised"
         /\ LET index == CallArg(1)
                n     == CallNargs - 1
            IN  IF /\ index.kind = oNUM
                   /\ index.value # None
                   /\ index.value.d = 1
                   /\ 1 <= index.value.n
                   /\ index.value.n <= n
                THEN FoldsTo(CallResult, CallArg(index.value.n + 1))
                ELSE CallResult.kind = oUNK /\ CallResult.value = None]_vars

-----------------------------------------------------------------------------
(* SpecExtern: the two externsheet resolution functions called directly on  *)
(* the tables of a workbook.  fin holds the arguments of the last call and  *)
(* fout what it returned or raised.                                         *)

NoIndex == -1       \* an index attribute the workbook left as None

SheetRefs == {0, 1, 2, 65534, 65535}
ExternsheetInfos ==
    {<<>>} \cup {<<<<r, f, l>>>> : r \in 0..2, f \in SheetRefs, l \in SheetRefs}
\* the sheet map: local sheet index per workbook sheet, -1 for a macro sheet
SheetMaps == {<<0>>, <<0, 1>>, <<0, -1>>, <<-1, 0>>}

InitExtern ==
    /\ bv \in {50, 80}
    /\ py3 \in BOOLEAN
    /\ \E info \in ExternsheetInfos, locals \in {NoIndex, 0}, addins \in {NoIndex, 1},
          map \in SheetMaps :
          bk = [sheet_names |-> <<"Sheet1">>,
                externsheet_info |-> info,
                supbook_locals_inx |-> locals,
                supbook_addins_inx |-> addins,
                all_sheets_map |-> map]
    /\ names = <<>>
    /\ frames = <<>>
    /\ est = NoEvaluate
    /\ probe = <<>>
    /\ dec = NoDecompile(<<>>, FMLA_TYPE_CELL)
    /\ fin = None
    /\ fout = None

Pure == <<bv, py3, bk, names, frames, est, probe, dec>>

\* a caller resolves EXTERNSHEET reference refx (BIFF8)
CallExternsheet ==
    /\ bv >= 80
    /\ \E refx \in 0..1 :
          /\ fin' = [fn |-> "get_externsheet_local_range", refx |-> refx]
          /\ fout' = get_externsheet_local_range(bk, refx)
    /\ UNCHANGED Pure

\* a caller resolves the sheet range of a BIFF5/7 3-D reference
CallExternsheetB57 ==
    /\ bv < 80
    /\ \E raw_extshtx \in -1..1, ref_first_sheetx \in -1..2, ref_last_sheetx \in -1..2 :
          /\ fin' = [fn |-> "get_externsheet_local_range_b57",
                     raw_extshtx |-> raw_extshtx,
                     ref_first_sheetx |-> ref_first_sheetx,
                     ref_last_sheetx |-> ref_last_sheetx]
          /\ fout' = get_externsheet_local_range_b57(bk, raw_extshtx,
                                                    ref_first_sheetx, ref_last_sheetx)
    /\ UNCHANGED Pure

NextExtern == CallExternsheet \/ CallExternsheetB57

SpecExtern == InitExtern /\ [][NextExtern]_vars

Sentinels == {-1, -2, -3, -4, -5, -101, -102, -103}

(* C7: a call of get_externsheet_local_range or of its BIFF5/7 variant      *)
(* never raises, and returns either a pair of local sheet indices with      *)
(* 0 <= first <= last or one of the documented sentinel pairs.              *)
C7_ExternsheetNeverRaises ==
    fout # None =>
        /\ fout.ok
        /\ \/ 0 <= fout.stack[1] /\ fout.stack[1] <= fout.stack[2]
           \/ fout.stack[1] \in Sentinels /\ fout.stack[2] = fout.stack[1]

-----------------------------------------------------------------------------
(* SpecAddr: get_cell_addr called directly on the stored form of a cell     *)
(* address.  fin holds the logical address, the anchor and reldelta; fout   *)
(* holds what each of the two layouts decoded to.                           *)

\* the bytes of a cell address in the layout of BIFF version v
AddrBytes(rowx, colx, row_rel, col_rel, v) ==
    IF v >= 80
    THEN <<rowx % 256, rowx \div 256, colx, 64 * col_rel + 128 * row_rel>>
    ELSE <<rowx % 256, (rowx \div 256) + 64 * col_rel + 128 * row_rel, colx>>

AddrRows == {0, 1, 300, 8191, 8192, 16383}
AddrCols == {0, 1, 127, 128, 255}

InitAddr ==
    /\ bv \in {70, 80}
    /\ py3 \in BOOLEAN
    /\ bk = NoBook
    /\ names = <<>>
    /\ frames = <<>>
    /\ est = NoEvaluate
    /\ probe = <<>>
    /\ dec = NoDecompile(<<>>, FMLA_TYPE_CELL)
    /\ \E rowx \in AddrRows, colx \in AddrCols, row_rel \in 0..1, col_rel \in 0..1,
          browx \in {0, 5}, bcolx \in {0, 3}, reldelta \in BOOLEAN :
          fin = [rowx |-> rowx, colx |-> colx, row_rel |-> row_rel, col_rel |-> col_rel,
                 browx |-> browx, bcolx |-> bcolx, reldelta |-> reldelta]
    /\ fout = [b8 |-> None, le7 |-> None]

\* get_cell_addr(data, pos, v, reldelta, browx, bcolx) on the address stored for version v
CallGetCellAddr ==
    /\ \E pos \in 0..1, v \in BiffVersions :
          LET data == [i \in 1..pos |-> 255]
                      \o AddrBytes(fin.rowx, fin.colx, fin.row_rel, fin.col_rel, v)
              addr == get_cell_addr(data, pos, v, fin.reldelta, fin.browx, fin.bcolx)
          IN  fout' = IF v >= 80 THEN [fout EXCEPT !.b8 = addr]
                      ELSE [fout EXCEPT !.le7 = addr]
    /\ UNCHANGED <<bv, py3, bk, names, frames, est, probe, dec, fin>>

NextAddr == CallGetCellAddr

SpecAddr == InitAddr /\ [][NextAddr]_vars

(* C10: with reldelta false, the newer and the older layout of one logical  *)
(* address (row < 16384) decode to the same (row, col, row_rel, col_rel):   *)
(* a relative axis is the stored value minus the anchor, an absolute axis   *)
(* is the stored value.                                                     *)
C10_LayoutEquivalence ==
    ~fin.reldelta =>
        LET expected == <<IF fin.row_rel = 1 THEN fin.rowx - fin.browx ELSE fin.rowx,
                          IF fin.col_rel = 1 THEN fin.colx - fin.bcolx ELSE fin.colx,
                          fin.row_rel, fin.col_rel>>
        IN  /\ fout.b8 # None => fout.b8 = expected
            /\ fout.le7 # None => fout.le7 = expected

C10_Witness ==
    /\ ~fin.reldelta
    /\ fin.row_rel = 1 /\ fin.col_rel = 1
    /\ fin.rowx = 300 /\ fin.browx = 5 /\ fin.bcolx = 3
    /\ fout.b8 # None
    /\ fout.b8 = fout.le7

-----------------------------------------------------------------------------
(* SpecNames: defined names that refer to each other through tName.  Name i *)
(* refers to name i+1; the last name holds the literal 1 (a chain) or       *)
(* refers back to the first name (a cycle).                                 *)

MaxChain == 12      \* names in the workbook

NameChain(len, cyclic) ==
    [i \in 1..len |->
        NameObject("n" \o ToString(i),
                   IF i < len THEN tNameTok(i + 1, bv)
                   ELSE IF cyclic THEN tNameTok(1, bv)
                   ELSE tIntTok(1))]

InitNames ==
    /\ bv \in {50, 80}
    /\ py3 \in BOOLEAN
    /\ bk = NoBook
    /\ \E len \in 1..MaxChain, cyclic \in BOOLEAN : names = NameChain(len, cyclic)
    /\ frames = <<>>
    /\ est = NoEvaluate
    /\ probe = [i \in 1..Len(names) |-> [walks |-> 0, writes |-> 0]]
    /\ dec = NoDecompile(<<>>, FMLA_TYPE_CELL)
    /\ fin = None
    /\ fout = None

NextNames ==
    \/ \E n \in 1..Len(names) : Evaluate(n)
    \/ EvalLiteral
    \/ EvalNameCall
    \/ EvalNameUse
    \/ EvalReturn

SpecNames == InitNames /\ [][NextNames]_vars

\* the outermost call has ended with the excessive-indirection error
Panicked == est.status = "raised" /\ est.exc = "XLRDError"

Walks(n) == probe'[n].walks > probe[n].walks
Writes(n) == probe'[n].writes > probe[n].writes

-----------------------------------------------------------------------------
(* SpecTokens: both walkers over streams that hold tokens the size table of *)
(* the workbook's version marks as not implemented (-2), tokens whose       *)
(* branch raises, and tokens no branch handles.                             *)

\* a token of opcode byte op padded with zero bytes to its size in version v
Padded(op, v) == <<op>> \o [i \in 1..(szdict(v)[Opx(op) + 1] - 1) |-> 0]

(* tInt 1, tAdd, tMissArg; Unk00 and the classed opcode 0x10 (-2 in every   *)
(* version); tExtended (-2 before BIFF8); tSheet (-2 from BIFF5 on);        *)
(* tFuncCE (-2 from BIFF4 on); tRefErr (in every version).                  *)
TokenAlphabet(v) ==
    {tIntTok(1), binopTok(tAdd), tMissArgTok, <<0>>, <<48>>, <<24>>, <<26>>,
     Padded(56, v), Padded(42, v)}

InitTokens ==
    /\ bv \in {21, 45, 70, 80}
    /\ py3 \in BOOLEAN
    /\ \E f \in TokSeqs(TokenAlphabet(bv), MaxTokens) : OneName(f)

NextTokens ==
    \/ \E n \in 1..Len(names) : Evaluate(n)
    \/ EvalLiteral
    \/ EvalBinop
    \/ EvalMissArg
    \/ EvalInvalid
    \/ EvalNotImplemented
    \/ EvalErrorOpcode
    \/ EvalNotHandled
    \/ EvalReturn
    \/ Decompile
    \/ DecLiteral
    \/ DecBinop
    \/ DecMissArg
    \/ DecInvalid
    \/ DecNotImplemented
    \/ DecErrorOpcode
    \/ DecNotHandled
    \/ DecReturn

SpecTokens == InitTokens /\ [][NextTokens]_vars

(* C11: a walker that reaches a token whose size entry is -2 raises         *)
(* FormulaError at that token: the decompiler's stack and cursor are as     *)
(* they were and no text is returned; the evaluator returns nothing, writes *)
(* no field of any name, and the name is not marked evaluated.              *)
C11_InvalidTokenRaises ==
    /\ [][(DWalking /\ DCurSz = -2) =>
             /\ dec'.status = "raised" /\ dec'.exc = "FormulaError"
             /\ dec'.stack = dec.stack /\ dec'.pos = dec.pos
             /\ dec'.result = None]_vars
    /\ [][(Walking /\ CurSz = -2) =>
             /\ est'.status = "raised" /\ est'.exc = "FormulaError"
             /\ frames' = <<>>
             /\ names' = names]_vars
    /\ [](est.status = "raised" =>
             names[1].evaluated = 0 /\ names[1].result = None)
    /\ [](dec.status = "raised" => dec.result = None)

C11_Witness ==
    /\ est.status = "raised" /\ est.exc = "FormulaError"
    /\ names[1].evaluated = 0
    /\ dec.status = "raised" /\ dec.exc = "FormulaError"
    /\ dec.pos = 3 /\ Len(dec.stack) = 1
    /\ DCurSz = -2
    /\ bv = 80 /\ DCurOp = 26

-----------------------------------------------------------------------------
(* SpecRefs: one defined name whose formula is made of reference tokens and *)
(* the reference operators, in a workbook with three sheets (the third a    *)
(* macro sheet) and an EXTERNSHEET table.                                   *)

W16(x) == <<(x % 65536) % 256, (x % 65536) \div 256>>

\* the bytes of one cell address; c is <<row, col, row_rel, col_rel>>
CellBytes(c, v) ==
    IF v >= 80 THEN W16(c[1]) \o <<c[2], 128 * c[3] + 64 * c[4]>>
    ELSE W16(c[1] + 32768 * c[3] + 16384 * c[4]) \o <<c[2]>>

\* the bytes of a range address with corners c1 and c2
AreaBytes(c1, c2, v) ==
    IF v >= 80
    THEN W16(c1[1]) \o W16(c2[1]) \o <<c1[2], 128 * c1[3] + 64 * c1[4]>>
         \o <<c2[2], 128 * c2[3] + 64 * c2[4]>>
    ELSE W16(c1[1] + 32768 * c1[3] + 16384 * c1[4])
         \o W16(c2[1] + 32768 * c2[3] + 16384 * c2[4]) \o <<c1[2], c2[2]>>

\* the sheet part of a 3-D reference token
SheetBytes(sh, v) ==
    IF v >= 80 THEN W16(sh.refx)
    ELSE W16(sh.raw) \o <<0, 0, 0, 0, 0, 0, 0, 0>> \o W16(sh.first) \o W16(sh.last)

tRefTok(class, c, v) == <<32 * class + 4>> \o CellBytes(c, v)
tAreaTok(class, c1, c2, v) == <<32 * class + 5>> \o AreaBytes(c1, c2, v)
tRef3dTok(class, sh, c, v) == <<32 * class + 26>> \o SheetBytes(sh, v) \o CellBytes(c, v)
tArea3dTok(class, sh, c1, c2, v) ==
    <<32 * class + 27>> \o SheetBytes(sh, v) \o AreaBytes(c1, c2, v)
tRefErrTok(v) == <<42>> \o [i \in 1..(szdict(v)[43] - 1) |-> 0]

\* the first sheet; the first two sheets
Local0 == [refx |-> 0, raw |-> -1, first |-> 0, last |-> 0]
Span01 == [refx |-> 1, raw |-> -1, first |-> 0, last |-> 1]

(* The third entry of the EXTERNSHEET table and the reference that uses it  *)
(* (BIFF8), or the sheet fields of the token itself (BIFF5/7).              *)
FarRefs(v) ==
    IF v >= 80
    THEN {[info |-> x, sheet |-> [refx |-> 2, raw |-> 0, first |-> 0, last |-> 0]] :
             x \in {<<0, 65535, 65535>>, <<2, 0, 0>>, <<1, 65534, 65534>>, <<1, 0, 0>>,
                    <<0, 5, 5>>, <<0, 2, 2>>, <<0, 65534, 65534>>}}
         \cup {[info |-> <<0, 0, 0>>,
                sheet |-> [refx |-> 3, raw |-> 0, first |-> 0, last |-> 0]]}
    ELSE {[info |-> <<0, 0, 0>>, sheet |-> [refx |-> 0, raw |-> t[1], first |-> t[2], last |-> t[3]]] :
             t \in {<<1, 0, 0>>, <<-1, -1, -1>>, <<-1, 5, 5>>, <<-1, 2, 2>>}}

RefBook(far) ==
    [sheet_names |-> <<"Sheet1", "Sheet2", "Macro1">>,
     externsheet_info |-> <<<<0, 0, 0>>, <<0, 0, 1>>, far.info>>,
     externsheet_type_b57 |-> <<4, 3>>,
     supbook_locals_inx |-> 0,
     supbook_addins_inx |-> 1,
     all_sheets_map |-> <<0, 1, -1>>]

MaxRefTokens == 3   \* tokens in an enumerated reference formula

RefAlphabet(v, far) ==
    {tRef3dTok(1, Local0, <<1, 2, 0, 0>>, v),
     tArea3dTok(1, Span01, <<0, 1, 0, 0>>, <<3, 1, 0, 0>>, v),
     tRef3dTok(1, far.sheet, <<1, 2, 0, 0>>, v),
     tRef3dTok(1, Local0, <<2, 0, 1, 0>>, v),
     tRefTok(1, <<2, 3, 1, 1>>, v),
     tAreaTok(1, <<1, 4, 1, 1>>, <<5, 2, 1, 1>>, v),
     tRefTok(2, <<0, 0, 0, 0>>, v),
     tRefErrTok(v),
     <<15>>, <<16>>, <<17>>}

\* the workbook of SpecRefs: its third EXTERNSHEET entry is an external workbook
ExternalRef(v) ==
    IF v >= 80
    THEN [info |-> <<2, 0, 0>>, sheet |-> [refx |-> 2, raw |-> 0, first |-> 0, last |-> 0]]
    ELSE [info |-> <<0, 0, 0>>, sheet |-> [refx |-> 0, raw |-> 1, first |-> 0, last |-> 0]]

InitRefs ==
    /\ bv \in {50, 80}
    /\ py3 = TRUE
    /\ bk = RefBook(ExternalRef(bv))
    /\ \E f \in TokSeqs(RefAlphabet(bv, ExternalRef(bv)), MaxRefTokens) :
          names = <<NameObject("n1", f)>>
    /\ frames = <<>>
    /\ est = NoEvaluate
    /\ probe = <<[walks |-> 0, writes |-> 0]>>
    /\ dec = NoDecompile(<<>>, FMLA_TYPE_NAME)
    /\ fin = None
    /\ fout = None

NextRefs ==
    \/ Evaluate(1)
    \/ EvalRef
    \/ EvalRef3d
    \/ EvalRefOp
    \/ EvalErrorOpcode
    \/ EvalReturn

SpecRefs == InitRefs /\ [][NextRefs]_vars

\* an evaluate_name_formula call returns normally in this step
ReturnsNormally == frames # <<>> /\ Len(frames') = Len(frames) - 1 /\ est'.status # "raised"

(* C12: every evaluate_name_formula call that returns normally leaves its   *)
(* name with evaluated = 1, with any_rel, any_err and any_external assigned *)
(* from the walk, and with result the single remaining operand when the     *)
(* final stack depth is exactly 1 and None for every other depth.           *)
C12_ReturnStoresResult ==
    /\ [][ReturnsNormally =>
            LET nobj == names'[Top.nobj] IN
            /\ nobj.evaluated = 1
            /\ nobj.stack = Top.stack
            /\ nobj.any_rel = (IF Top.any_rel # 0 THEN 1 ELSE 0)
            /\ nobj.any_err = Top.any_err
            /\ nobj.any_external = Top.any_external
            /\ nobj.result = (IF Len(Top.stack) = 1 THEN Top.stack[1] ELSE None)]_vars
    /\ [](est.status = "done" => names[1].evaluated = 1)
    /\ [](\A n \in 1..Len(names) :
            names[n].evaluated = 1 =>
               names[n].result = (IF Len(names[n].stack) = 1 THEN names[n].stack[1]
                                  ELSE None))

\* a call has returned with two operands left, both flags set and no result
C12_Witness ==
    /\ est.status = "done"
    /\ names[1].evaluated = 1
    /\ Len(names[1].stack) = 2
    /\ names[1].result = None
    /\ names[1].any_rel = 1
    /\ names[1].any_err = 1

-----------------------------------------------------------------------------
(* SpecContext: the same token stream is evaluated as a NAME formula and    *)
(* decompiled as a cell, shared or NAME formula.  The stream holds tokens   *)
(* that the context table forbids in some formula types: tExp and tTbl      *)
(* (everywhere but in a cell formula) and tRange (in shared formulas).      *)

ContextAlphabet(v) ==
    {tIntTok(1), binopTok(tAdd), tRangeTok, Padded(1, v), Padded(2, v)}

InitContext ==
    /\ bv \in {21, 50, 80}
    /\ py3 = TRUE
    /\ bk = NoBook
    /\ \E f \in TokSeqs(ContextAlphabet(bv), MaxTokens) :
          /\ names = <<NameObject("n1", f)>>
          /\ \E ft \in {FMLA_TYPE_CELL, FMLA_TYPE_SHARED, FMLA_TYPE_NAME} :
                dec = NoDecompile(f, ft)
    /\ frames = <<>>
    /\ est = NoEvaluate
    /\ probe = <<[walks |-> 0, writes |-> 0]>>
    /\ fin = None
    /\ fout = None

NextContext ==
    \/ Evaluate(1)
    \/ EvalLiteral
    \/ EvalBinop
    \/ EvalRefOp
    \/ EvalNotInName
    \/ EvalReturn
    \/ Decompile
    \/ DecLiteral
    \/ DecBinop
    \/ DecRangeOp
    \/ DecExp
    \/ DecUnhandled
    \/ DecReturn

SpecContext == InitContext /\ [][NextContext]_vars

\* the token at the evaluator's cursor is not allowed in a NAME formula
NotAllowedInName ==
    (_TOKEN_NOT_ALLOWED(Opx(CurOp)) \div FMLA_TYPE_NAME) % 2 = 1

(* C13: in both walkers a token that is valid for the BIFF version but not  *)
(* permitted in the formula's context is a soft condition: the decompiler   *)
(* logs it, and in neither walker does the step abort with FormulaError;    *)
(* unless the step fails for another reason, the cursor moves on to the     *)
(* following token.                                                         *)
C13_ContextViolationIsSoft ==
    /\ [][(DWalking /\ DCurSz # -2 /\ NotAllowed) =>
             /\ dec'.log > dec.log
             /\ ~(dec'.status = "raised" /\ dec'.exc = "FormulaError")
             /\ (dec'.status # "raised" => dec'.pos > dec.pos)]_vars
    /\ [][(Walking /\ CurSz # -2 /\ NotAllowedInName) =>
             /\ ~(est'.status = "raised" /\ est'.exc = "FormulaError")
             /\ (est'.status # "raised" =>
                    frames' # <<>> /\ frames'[Len(frames')].pos > Top.pos)]_vars

-----------------------------------------------------------------------------
(* SpecCall: a function call through tFunc or tFuncVar.  The formula is an  *)
(* optional operand that does not belong to the call, the arguments, then   *)
(* the call token.  COUNT takes 0 to 30 arguments, NA none, SIN one; 87 is  *)
(* not in the catalog.                                                      *)

CallIds == {0, 10, 15, 87}

\* argument lists of up to n arguments, each the literal 1 or a missing argument
RECURSIVE CallArgLists(_)
CallArgLists(n) ==
    IF n = 0 THEN {<<>>}
    ELSE LET shorter == CallArgLists(n - 1)
         IN  shorter \cup {Append(l, a) : l \in {x \in shorter : Len(x) = n - 1},
                                          a \in {tIntTok(1), tMissArgTok}}

tFuncTok(funcx, v) ==
    IF v >= 40 THEN <<33, funcx % 256, funcx \div 256>> ELSE <<33, funcx>>

InitCall ==
    /\ bv \in {30, 80}
    /\ py3 = TRUE
    /\ \E prefix \in {<<>>, tIntTok(7)}, funcx \in CallIds, args \in CallArgLists(MaxArgs) :
          \/ OneName(Call(prefix, args, funcx))
          \/ OneName(prefix \o Concat(args) \o tFuncTok(funcx, bv))

NextCall ==
    \/ Evaluate(1)
    \/ EvalLiteral
    \/ EvalMissArg
    \/ EvalFunc
    \/ EvalFuncVar
    \/ EvalReturn
    \/ Decompile
    \/ DecLiteral
    \/ DecMissArg
    \/ DecFunc
    \/ DecFuncVar
    \/ DecReturn

SpecCall == InitCall /\ [][NextCall]_vars

\* the function id and the argument count of the tFunc or tFuncVar token at pos
CallFuncx(data, pos) ==
    IF Opcode(Byte(data, pos)) = 2 THEN FuncVarFields(data, pos, bv).funcx % 32768
    ELSE IF bv >= 40 THEN U16(data, pos + 1) ELSE Byte(data, pos + 1)
CallArgc(data, pos) ==
    IF Opcode(Byte(data, pos)) = 2 THEN FuncVarFields(data, pos, bv).nargs % 128
    ELSE IF CallFuncx(data, pos) \in DOMAIN func_defs
    THEN func_defs[CallFuncx(data, pos)].minargs ELSE 0

\* after is stk with its top n operands replaced by one Unknown operand name(args)
CallEffect(stk, after, n, name, rank) ==
    /\ Len(after) = Len(stk) - n + 1
    /\ SubSeq(after, 1, Len(after) - 1) = SubSeq(stk, 1, Len(stk) - n)
    /\ IsOperand(Last(after))
    /\ Last(after).kind = oUNK
    /\ Last(after).value = None
    /\ Last(after).rank \in rank
    /\ Last(after).text = name \o "(" \o JoinText(SubSeq(stk, Len(stk) - n + 1, Len(stk)))
                          \o ")"

(* C14: a tFunc or tFuncVar token with a function id absent from the        *)
(* catalog does not raise; the arguments of a tFuncVar call are consumed    *)
(* and one Unknown operand with text ?(args) takes their place, so that a   *)
(* formula made of that one call and its arguments ends with exactly one    *)
(* operand and decompiles to a text.                                        *)
C14_UnknownFunctionConsumesArgs ==
    /\ [][(Token({1, 2, 3}, {1, 2}) /\ CallFuncx(Data(Top), Top.pos) \notin DOMAIN func_defs
           /\ Len(Top.stack) >= CallArgc(Data(Top), Top.pos)) =>
             /\ est'.status # "raised"
             /\ frames' # <<>>
             /\ Opcode(CurOp) = 2 =>
                  CallEffect(Top.stack, frames'[Len(frames')].stack,
                             CallArgc(Data(Top), Top.pos), "?", 0..FUNC_RANK)]_vars
    /\ [][(DToken({1, 2, 3}, {1, 2}) /\ CallFuncx(dec.fmla, dec.pos) \notin DOMAIN func_defs
           /\ Len(dec.stack) >= CallArgc(dec.fmla, dec.pos)) =>
             /\ dec'.status # "raised"
             /\ Opcode(DCurOp) = 2 =>
                  CallEffect(dec.stack, dec'.stack, CallArgc(dec.fmla, dec.pos),
                             "?", 0..FUNC_RANK)]_vars
    /\ [](\A args \in CallArgLists(MaxArgs) :
            (dec.status = "returned" /\ dec.fmla = Call(<<>>, args, 87)) =>
               Len(dec.stack) = 1 /\ dec.result # None)

(* C18: a tFunc or tFuncVar call of a cataloged function with n arguments,  *)
(* n = 0 included, removes exactly the top n operands, pushes one operand   *)
(* of kind Unknown at function-call rank with text name(arg1,...,argn) and  *)
(* leaves the operands below unchanged, in both walkers (none of the        *)
(* functions called here is IF or CHOOSE).                                  *)
C18_CallPopsItsArguments ==
    /\ [][(Token({1, 2, 3}, {1, 2}) /\ CallFuncx(Data(Top), Top.pos) \in DOMAIN func_defs
           /\ Len(Top.stack) >= CallArgc(Data(Top), Top.pos)
           /\ func_defs[CallFuncx(Data(Top), Top.pos)].minargs <= CallArgc(Data(Top), Top.pos)
           /\ CallArgc(Data(Top), Top.pos) <= func_defs[CallFuncx(Data(Top), Top.pos)].maxargs) =>
             /\ est'.status # "raised"
             /\ frames' # <<>>
             /\ CallEffect(Top.stack, frames'[Len(frames')].stack,
                           CallArgc(Data(Top), Top.pos),
                           func_defs[CallFuncx(Data(Top), Top.pos)].name, {FUNC_RANK})]_vars
    /\ [][(DToken({1, 2, 3}, {1, 2}) /\ CallFuncx(dec.fmla, dec.pos) \in DOMAIN func_defs
           /\ Len(dec.stack) >= CallArgc(dec.fmla, dec.pos)
           /\ func_defs[CallFuncx(dec.fmla, dec.pos)].minargs <= CallArgc(dec.fmla, dec.pos)
           /\ CallArgc(dec.fmla, dec.pos) <= func_defs[CallFuncx(dec.fmla, dec.pos)].maxargs) =>
             /\ dec'.status # "raised"
             /\ CallEffect(dec.stack, dec'.stack, CallArgc(dec.fmla, dec.pos),
                           func_defs[CallFuncx(dec.fmla, dec.pos)].name, {FUNC_RANK})]_vars

-----------------------------------------------------------------------------
(* SpecFar: 3-D references to sheets that the workbook cannot resolve: the  *)
(* third EXTERNSHEET entry (BIFF8) or the sheet fields of the token         *)
(* (BIFF5/7) range over deleted sheets, a macro sheet, an external          *)
(* workbook, the add-in table and indexes out of range.                     *)

MaxFarTokens == 2   \* tokens in an enumerated formula of 3-D references

FarAlphabet(v, far) ==
    {tRef3dTok(1, far.sheet, <<1, 2, 0, 0>>, v),
     tArea3dTok(1, far.sheet, <<0, 1, 1, 0>>, <<3, 1, 1, 0>>, v),
     tRef3dTok(1, Local0, <<1, 2, 0, 0>>, v)}

InitFar ==
    /\ bv \in {50, 80}
    /\ py3 = TRUE
    /\ \E far \in FarRefs(bv) :
          /\ bk = RefBook(far)
          /\ \E f \in TokSeqs(FarAlphabet(bv, far), MaxFarTokens) :
                names = <<NameObject("n1", f)>>
    /\ frames = <<>>
    /\ est = NoEvaluate
    /\ probe = <<[walks |-> 0, writes |-> 0]>>
    /\ dec = NoDecompile(<<>>, FMLA_TYPE_NAME)
    /\ fin = None
    /\ fout = None

NextFar ==
    \/ Evaluate(1)
    \/ EvalRef3d
    \/ EvalReturn

SpecFar == InitFar /\ [][NextFar]_vars

\* the sheet span of the tRef3d or tArea3d token at the evaluator's cursor
SheetSpan ==
    IF bv >= 80 THEN get_externsheet_local_range(bk, U16(Data(Top), Top.pos + 1))
    ELSE get_externsheet_local_range_b57(bk, S16(Data(Top), Top.pos + 1),
                                         S16(Data(Top), Top.pos + 11),
                                         S16(Data(Top), Top.pos + 13))

(* C15: for a tRef3d or tArea3d token whose sheet span resolves to a        *)
(* sentinel below -1, the evaluator does not raise, the operand pushed for  *)
(* the reference has kind Error, and any_err is set.                        *)
C15_UnresolvedSheetIsError ==
    [][(Token({1, 2, 3}, {26, 27}) /\ SheetSpan.ok /\ SheetSpan.stack[1] < -1) =>
          /\ est'.status # "raised"
          /\ frames' # <<>>
          /\ frames'[Len(frames')].any_err = 1
          /\ Last(frames'[Len(frames')].stack).kind = oERR]_vars

-----------------------------------------------------------------------------
(* Box combination, checked under SpecRefs *)

Min2(a, b) == IF b < a THEN b ELSE a
Max2(a, b) == IF b > a THEN b ELSE a

\* the two operands the operator at the cursor will pop
Aop == Top.stack[Len(Top.stack) - 1]
Bop == Top.stack[Len(Top.stack)]

\* tIsect or tRange is met with two reference operands of the same kind, one box each
SameKindBoxes ==
    /\ Token({0}, {15, 17})
    /\ Len(Top.stack) >= 2
    /\ IsOperand(Aop) /\ IsOperand(Bop)
    /\ Aop.kind = Bop.kind
    /\ Aop.kind \in {oREF, oREL}
    /\ Aop.value # None /\ Bop.value # None
    /\ Len(Aop.value.l) = 1 /\ Len(Bop.value.l) = 1

\* the operand pushed by the step is one box combined from the two at the bounds
CombinedBox ==
    /\ est'.status # "raised"
    /\ frames' # <<>>
    /\ LET res == Last(frames'[Len(frames')].stack)
           a   == Aop.value.l[1].coords
           b   == Bop.value.l[1].coords
       IN
       /\ IsOperand(res)
       /\ res.kind = Aop.kind
       /\ res.value # None
       /\ Len(res.value.l) = 1
       /\ \A i \in {1, 3, 5} :
             IF Opcode(CurOp) = 17
             THEN /\ res.value.l[1].coords[i] = Min2(a[i], b[i])
                  /\ res.value.l[1].coords[i + 1] = Max2(a[i + 1], b[i + 1])
             ELSE /\ res.value.l[1].coords[i] = Max2(a[i], b[i])
                  /\ res.value.l[1].coords[i + 1] = Min2(a[i + 1], b[i + 1])
       /\ a = b => res.value.l[1].coords = a
       /\ \A funcs \in {tRangeFuncs, tIsectFuncs} :
             do_box_funcs(funcs, Aop.value.l[1], Bop.value.l[1])
                = do_box_funcs(funcs, Bop.value.l[1], Aop.value.l[1])

(* C16 as stated: for two same-kind reference operands that each hold one   *)
(* box, tRange produces one box with the min of the lower bounds and the    *)
(* max of the upper bounds on each axis and tIsect one box with max and     *)
(* min; the result does not depend on the order of the operands and a box   *)
(* combined with itself is that box.                                        *)
C16_BoxCombination == [][SameKindBoxes => CombinedBox]_vars

(* C16 amended: the same, for absolute operands and for relative operands   *)
(* whose boxes carry the same relative flags; relative operands with        *)
(* different flags give a relative operand without a box.                   *)
C16_BoxCombinationSameFlags ==
    [][SameKindBoxes =>
          IF Aop.kind = oREL /\ Aop.value.l[1].relflags # Bop.value.l[1].relflags
          THEN /\ est'.status # "raised"
               /\ frames' # <<>>
               /\ Last(frames'[Len(frames')].stack).kind = oREL
               /\ Last(frames'[Len(frames')].stack).value = None
          ELSE CombinedBox]_vars

\* the range of two relative references with the same flags has been folded
C16_Witness ==
    /\ frames # <<>>
    /\ Top.pos = FmlaLen(Top)
    /\ Top.pos > 0
    /\ Byte(Data(Top), Top.pos - 1) = 17
    /\ Len(Top.stack) = 1
    /\ IsOperand(Top.stack[1])
    /\ Top.stack[1].kind = oREL
    /\ Top.stack[1].value = RefsV(<<Ref3D(<<0, 1, 1, 6, 3, 4, 1, 1, 1, 1, 1, 1>>)>>)

-----------------------------------------------------------------------------
(* SpecRangeOps: the reference operators applied, in both walkers, to       *)
(* operands of kind Error (the literal #DIV/0!), Unknown (the call NA())    *)
(* and Number (the literal 1).                                              *)

RangeOpAlphabet(v) ==
    {tErrTok(7), tFuncTok(10, v), tIntTok(1), <<15>>, <<16>>, <<17>>}

InitRangeOps ==
    /\ bv \in {30, 80}
    /\ py3 = TRUE
    /\ \E f \in TokSeqs(RangeOpAlphabet(bv), MaxTokens) : OneName(f)
    /\ fin = None
    /\ fout = None

NextRangeOps ==
    \/ Evaluate(1)
    \/ EvalLiteral
    \/ EvalFunc
    \/ EvalRefOp
    \/ EvalReturn
    \/ Decompile
    \/ DecLiteral
    \/ DecFunc
    \/ DecRefOp
    \/ DecRangeOp
    \/ DecReturn

SpecRangeOps == InitRangeOps /\ [][NextRangeOps]_vars

\* what tIsect, tList or tRange must push in place of the operands aop and bop
ErrorOrUnknown(stk, after) ==
    LET aop == stk[Len(stk) - 1]
        bop == stk[Len(stk)]
        res == Last(after)
    IN
    /\ Len(after) = Len(stk) - 1
    /\ SubSeq(after, 1, Len(after) - 1) = SubSeq(stk, 1, Len(stk) - 2)
    /\ IsOperand(res)
    /\ (aop.kind = oERR \/ bop.kind = oERR) => res.kind = oERR
    /\ (aop.kind # oERR /\ bop.kind # oERR /\ (aop.kind = oUNK \/ bop.kind = oUNK)) =>
          res.kind = oUNK /\ res.value = None

(* C17: for tIsect, tRange and tList, in both walkers, exactly one Operand  *)
(* is pushed in place of the two popped; its kind is Error if either popped *)
(* operand has kind Error, and otherwise Unknown with value None if either  *)
(* has kind Unknown.                                                        *)
C17_ErrorAndUnknownPropagate ==
    /\ [][(Token({0}, {15, 16, 17}) /\ Len(Top.stack) >= 2) =>
             /\ est'.status # "raised"
             /\ frames' # <<>>
             /\ ErrorOrUnknown(Top.stack, frames'[Len(frames')].stack)]_vars
    /\ [][(DToken({0}, {15, 16, 17}) /\ Len(dec.stack) >= 2) =>
             /\ dec'.status # "raised"
             /\ ErrorOrUnknown(dec.stack, dec'.stack)]_vars

-----------------------------------------------------------------------------
(* SpecTaint: the name N (index 0) refers to the name M (index 1) through   *)
(* tName or tNameX.  M is a constant, a relative reference, an error        *)
(* reference or both, and may be a macro or a binary name.                  *)

\* tNameX to the name with 1-based index inx, in this workbook
tNameXTok(inx, v) ==
    IF v >= 80 THEN <<57>> \o W16(0) \o W16(inx) \o <<0, 0>>
    ELSE <<57>> \o W16(-1) \o <<0, 0, 0, 0, 0, 0, 0, 0>> \o W16(inx)
         \o [i \in 1..(szdict(v)[58] - 13) |-> 0]

TargetFormulas(v) ==
    {tIntTok(1),
     tRefTok(1, <<2, 3, 1, 1>>, v),
     tRefErrTok(v),
     tRefTok(1, <<2, 3, 1, 1>>, v) \o tRefErrTok(v)}

ReferringFormulas(v) ==
    {tNameTok(2, v), tNameXTok(2, v), tNameTok(2, v) \o tNameXTok(2, v)}

InitTaint ==
    /\ bv \in {50, 80}
    /\ py3 = TRUE
    /\ bk = RefBook(ExternalRef(bv))
    /\ \E fn \in ReferringFormulas(bv), fm \in TargetFormulas(bv),
          macro \in {0, 1}, binary \in {0, 1} :
          names = <<NameObject("N", fn),
                    [NameObject("M", fm) EXCEPT !.macro = macro, !.binary = binary]>>
    /\ frames = <<>>
    /\ est = NoEvaluate
    /\ probe = [i \in 1..2 |-> [walks |-> 0, writes |-> 0]]
    /\ dec = NoDecompile(<<>>, FMLA_TYPE_NAME)
    /\ fin = None
    /\ fout = None

NextTaint ==
    \/ \E n \in 1..2 : Evaluate(n)
    \/ EvalLiteral
    \/ EvalRef
    \/ EvalErrorOpcode
    \/ EvalNameCall
    \/ EvalNameUse
    \/ EvalNameXCall
    \/ EvalNameXUse
    \/ EvalReturn

SpecTaint == InitTaint /\ [][NextTaint]_vars

(* C19: once N, whose formula refers to M, has been evaluated, N.any_err is *)
(* set whenever M is macro, binary or has any_err set, the operand pushed   *)
(* for M then being Unknown with value None, and N.any_rel is set whenever  *)
(* M.any_rel is set.                                                        *)
C19_FlagsAreTransitive ==
    (names[1].evaluated = 1 /\ names[2].evaluated = 1) =>
       /\ (names[2].macro # 0 \/ names[2].binary # 0 \/ names[2].any_err # 0) =>
             /\ names[1].any_err # 0
             /\ \A i \in 1..Len(names[1].stack) :
                   names[1].stack[i].kind = oUNK /\ names[1].stack[i].value = None
       /\ names[2].any_rel # 0 => names[1].any_rel # 0

-----------------------------------------------------------------------------
(* SpecRelAddr: cell and range addresses decoded with reldelta true, as the *)
(* evaluator and the decompiler of shared, NAME, conditional-format and     *)
(* data-validation formulas do.  fin is the stored address and the anchor   *)
(* cell the caller passes; fout is what the decoder returned.               *)

RelRows == {0, 1, 8191, 8192, 16383, 16384, 32767, 32768, 65535}
RelCols == {0, 1, 127, 128, 255}

InitRelAddr ==
    /\ bv \in {70, 80}
    /\ py3 = TRUE
    /\ bk = NoBook
    /\ names = <<>>
    /\ frames = <<>>
    /\ est = NoEvaluate
    /\ probe = <<>>
    /\ dec = NoDecompile(<<>>, FMLA_TYPE_NAME)
    /\ \E rowx \in RelRows, colx \in RelCols, row_rel \in 0..1, col_rel \in 0..1,
          browx \in {0, 5}, bcolx \in {0, 3} :
          /\ bv < 80 => rowx < 16384
          /\ fin = [rowx |-> rowx, colx |-> colx, row_rel |-> row_rel, col_rel |-> col_rel,
                    browx |-> browx, bcolx |-> bcolx]
    /\ fout = None

\* the stored address of fin as one corner <<row, col, row_rel, col_rel>>
Stored == <<fin.rowx, fin.colx, fin.row_rel, fin.col_rel>>
\* a second corner: the same cell with the relative flags exchanged
Stored2 == <<fin.rowx, fin.colx, fin.col_rel, fin.row_rel>>

\* get_cell_addr(data, pos, bv, reldelta=1, browx, bcolx)
CallRelCellAddr ==
    /\ fout = None
    /\ fout' = [fn |-> "get_cell_addr",
                res |-> <<get_cell_addr(CellBytes(Stored, bv), 0, bv, TRUE,
                                        fin.browx, fin.bcolx)>>,
                corners |-> <<Stored>>]
    /\ UNCHANGED <<bv, py3, bk, names, frames, est, probe, dec, fin>>

\* get_cell_range_addr(data, pos, bv, reldelta=1, browx, bcolx)
CallRelRangeAddr ==
    /\ fout = None
    /\ fout' = [fn |-> "get_cell_range_addr",
                res |-> get_cell_range_addr(AreaBytes(Stored, Stored2, bv), 0, bv, TRUE,
                                            fin.browx, fin.bcolx),
                corners |-> <<Stored, Stored2>>]
    /\ UNCHANGED <<bv, py3, bk, names, frames, est, probe, dec, fin>>

NextRelAddr ==
    \/ CallRelCellAddr
    \/ CallRelRangeAddr

SpecRelAddr == InitRelAddr /\ [][NextRelAddr]_vars

\* the coordinate stored as x, relative or not, decoded with wrap threshold half
Delta(x, rel, half) == IF rel = 1 /\ x >= half THEN x - 2 * half ELSE x

(* C20: with reldelta true a relative coordinate stored at or above half    *)
(* the addressable range is decoded as a negative delta (rows: 32768 and    *)
(* above lose 65536 in the newer layout, 8192 and above lose 16384 in the   *)
(* older one; columns: 128 and above lose 256), so relative rows lie in     *)
(* [-32768, 32767] or [-8192, 8191] and relative columns in [-128, 127];    *)
(* absolute coordinates are returned as stored and the anchor is not used.  *)
C20_RelativeWrap ==
    fout # None =>
       \A i \in 1..Len(fout.res) :
          LET stored == fout.corners[i]
              addr   == fout.res[i]
              half   == IF bv >= 80 THEN 32768 ELSE 8192
          IN
          /\ addr[3] = stored[3] /\ addr[4] = stored[4]
          /\ addr[1] = Delta(stored[1], stored[3], half)
          /\ addr[2] = Delta(stored[2], stored[4], 128)
          /\ stored[3] = 1 => -half <= addr[1] /\ addr[1] <= half - 1
          /\ stored[4] = 1 => -128 <= addr[2] /\ addr[2] <= 127
          /\ stored[3] = 0 => addr[1] = stored[1]
          /\ stored[4] = 0 => addr[2] = stored[2]
          /\ \A browx \in {0, 5, 40000}, bcolx \in {0, 3, 200} :
                addr = get_cell_addr(CellBytes(stored, bv), 0, bv, TRUE, browx, bcolx)

\* a relative row stored as 32768 in the newer layout was decoded as -32768
C20_Witness ==
    /\ fout # None
    /\ bv = 80
    /\ fin.rowx = 32768
    /\ fin.row_rel = 1
    /\ fout.res[1][1] = -32768

-----------------------------------------------------------------------------
(* SpecCellNames: the text of a cell and of a range, built by cellnamerel   *)
(* and rangename2drel.  fin holds the arguments: a coordinate is a delta    *)
(* when its flag is set, an anchor the caller did not give is NoAnchor.     *)

NameRows == {-1, 0, 2}
NameCols == {-1, 0, 3}

InitCellNames ==
    /\ bv = 80
    /\ py3 = TRUE
    /\ bk = NoBook
    /\ names = <<>>
    /\ frames = <<>>
    /\ est = NoEvaluate
    /\ probe = <<>>
    /\ dec = NoDecompile(<<>>, FMLA_TYPE_NAME)
    /\ \E rowx \in NameRows, colx \in NameCols, rowxrel \in 0..1, colxrel \in 0..1,
          browx \in {NoAnchor, 5}, bcolx \in {NoAnchor, 3}, r1c1 \in BOOLEAN :
          /\ rowxrel = 0 => rowx >= 0
          /\ colxrel = 0 => colx >= 0
          /\ fin = [rowx |-> rowx, colx |-> colx, rowxrel |-> rowxrel, colxrel |-> colxrel,
                    browx |-> browx, bcolx |-> bcolx, r1c1 |-> r1c1]
    /\ fout = None

\* cellnamerel(rowx, colx, rowxrel, colxrel, browx, bcolx, r1c1)
CallCellNameRel ==
    /\ fout = None
    /\ fout' = [fn |-> "cellnamerel",
                res |-> cellnamerel(fin.rowx, fin.colx, fin.rowxrel, fin.colxrel,
                                    fin.browx, fin.bcolx, fin.r1c1)]
    /\ UNCHANGED <<bv, py3, bk, names, frames, est, probe, dec, fin>>

\* rangename2drel((rlo, rhi, clo, chi), flags, browx, bcolx, r1c1): the low
\* corner is the cell of fin, the high corner an absolute cell
CallRangeName2dRel ==
    /\ fout = None
    /\ fout' = [fn |-> "rangename2drel",
                res |-> rangename2drel(<<fin.rowx, 8, fin.colx, 6>>,
                                       <<fin.rowxrel, 0, fin.colxrel, 0>>,
                                       fin.browx, fin.bcolx, fin.r1c1)]
    /\ UNCHANGED <<bv, py3, bk, names, frames, est, probe, dec, fin>>

NextCellNames ==
    \/ CallCellNameRel
    \/ CallRangeName2dRel

SpecCellNames == InitCellNames /\ [][NextCellNames]_vars

\* a cell wholly in R1C1 notation: row part, then column part
R1C1Cell(rowx, colx, rowxrel, colxrel) ==
    (IF rowxrel = 0 THEN "R" \o ToString(rowx + 1)
     ELSE IF rowx # 0 THEN "R[" \o ToString(rowx) \o "]" ELSE "R")
    \o
    (IF colxrel = 0 THEN "C" \o ToString(colx + 1)
     ELSE IF colx # 0 THEN "C[" \o ToString(colx) \o "]" ELSE "C")

\* a cell wholly in A1 notation: column letters, then row number
A1Cell(rowx, colx, rowxrel, colxrel, browx, bcolx) ==
    (IF colxrel = 0 THEN "$" \o colname(colx) ELSE colname((bcolx + colx) % 256))
    \o
    (IF rowxrel = 0 THEN "$" \o ToString(rowx + 1)
     ELSE ToString(((browx + rowx) % 65536) + 1))

\* a relative row without an anchor row, or a relative column without an
\* anchor column
LacksAnchor(rowrel, colrel) ==
    \/ rowrel /\ fin.browx = NoAnchor
    \/ colrel /\ fin.bcolx = NoAnchor

(* C21: a cell or range descriptor of cellnamerel / rangename2drel is       *)
(* wholly in one notation: when a relative row lacks an anchor row or a     *)
(* relative column lacks an anchor column the whole descriptor, both ends   *)
(* of a range included, is in R1C1 form even if A1 was requested;           *)
(* otherwise, with A1 requested, an absolute axis has a $ prefix and a      *)
(* relative axis is the anchor plus the delta.                              *)
C21_OneNotation ==
    fout # None =>
       LET r1c1 == fin.r1c1 \/ LacksAnchor(fin.rowxrel # 0, fin.colxrel # 0)
           low  == IF r1c1 THEN R1C1Cell(fin.rowx, fin.colx, fin.rowxrel, fin.colxrel)
                   ELSE A1Cell(fin.rowx, fin.colx, fin.rowxrel, fin.colxrel,
                               fin.browx, fin.bcolx)
           high == IF r1c1 THEN R1C1Cell(7, 5, 0, 0)
                   ELSE A1Cell(7, 5, 0, 0, fin.browx, fin.bcolx)
       IN  fout.res = IF fout.fn = "cellnamerel" THEN low ELSE low \o ":" \o high

-----------------------------------------------------------------------------
(* SpecWalk: both walkers over streams of tokens of different sizes: fixed  *)
(* sizes from the size table (tInt 3 bytes, tAdd, tMissArg and tParen 1),   *)
(* sizes computed from the token (tStr, tAttr), and a token whose table     *)
(* entry is -2.  SpecWalkFair adds that a call, once begun, keeps running.  *)

MaxWalkTokens == 2      \* tokens in a formula of SpecWalk

WalkAlphabet(v) ==
    {tIntTok(1), tStrTok(<<97>>, v), tAttrSumTok, binopTok(tAdd), tMissArgTok,
     tParenTok, <<48>>}

InitWalk ==
    /\ bv \in {70, 80}
    /\ py3 = TRUE
    /\ \E f \in TokSeqs(WalkAlphabet(bv), MaxWalkTokens) : OneName(f)

NextWalk ==
    \/ \E n \in 1..Len(names) : Evaluate(n)
    \/ EvalLiteral
    \/ EvalStr
    \/ EvalAttr
    \/ EvalBinop
    \/ EvalMissArg
    \/ EvalParen
    \/ EvalInvalid
    \/ EvalReturn
    \/ Decompile
    \/ DecLiteral
    \/ DecStr
    \/ DecAttr
    \/ DecBinop
    \/ DecMissArg
    \/ DecParen
    \/ DecInvalid
    \/ DecReturn

SpecWalk == InitWalk /\ [][NextWalk]_vars

\* the activations of the two walkers: every step of NextWalk changes one
walkvars == <<frames, est, dec>>

\* the interpreter runs a call that has begun until it returns or raises
SpecWalkFair == SpecWalk /\ WF_walkvars(NextWalk)

(* C22: in both walkers a processed token either raises or moves the cursor *)
(* forward by at least one byte; the cursor starts at 0 and a token is      *)
(* processed only while the cursor is below fmlalen, so at most fmlalen     *)
(* tokens are processed and the walk of a formula ends, by exhaustion or by *)
(* an error.                                                                *)
C22_CursorAdvances ==
    /\ [][Walking =>
             \/ est'.status = "raised" /\ frames' = <<>>
             \/ /\ Len(frames') = Len(frames)
                /\ frames'[Len(frames)].pos >= Top.pos + 1]_vars
    /\ [][DWalking =>
             \/ dec'.status = "raised"
             \/ dec'.status = "running" /\ dec'.pos >= dec.pos + 1]_vars
    /\ [][(frames = <<>> /\ frames' # <<>>) => frames'[1].pos = 0]_vars
    /\ [][(dec.status = "idle" /\ dec'.status = "running") => dec'.pos = 0]_vars
    /\ [](est.status = "running" => <>(est.status \in {"done", "raised"}))
    /\ [](dec.status = "running" => <>(dec.status \in {"returned", "raised"}))

\* both walkers went through a string token and a tAttr token to the end
C22_Witness ==
    /\ names[1].raw_formula = tStrTok(<<97>>, bv) \o tAttrSumTok
    /\ est.status = "done"
    /\ names[1].evaluated = 1
    /\ dec.status = "returned"
    /\ dec.pos = dec.fmlalen

-----------------------------------------------------------------------------
(* SpecThreads: two threads call evaluate_name_formula on names of the same *)
(* workbook.  The interpreter runs one thread at a time and may switch      *)
(* between any two tokens: frames and est are the activations and the call  *)
(* status of the running thread, fin holds those of the waiting thread.     *)
(* The name N (index 0) refers to the name M (index 1) through tName.       *)

InitThreads ==
    /\ bv \in {50, 80}
    /\ py3 = TRUE
    /\ bk = NoBook
    /\ \E fm \in {tIntTok(1), tIntTok(1) \o tIntTok(3) \o binopTok(tAdd)} :
          names = <<NameObject("N", tNameTok(2, bv)), NameObject("M", fm)>>
    /\ frames = <<>>
    /\ est = NoEvaluate
    /\ probe = [i \in 1..2 |-> [walks |-> 0, writes |-> 0]]
    /\ dec = NoDecompile(<<>>, FMLA_TYPE_NAME)
    /\ fin = [frames |-> <<>>, est |-> NoEvaluate]
    /\ fout = None

(* the running thread is suspended and the waiting thread resumed; no lock  *)
(* is taken anywhere in evaluate_name_formula, so this is possible between  *)
(* any two tokens                                                           *)
SwitchThread ==
    /\ frames' = fin.frames
    /\ est' = fin.est
    /\ fin' = [frames |-> frames, est |-> est]
    /\ UNCHANGED <<bv, py3, bk, names, probe, dec, fout>>

NextThreads ==
    \/ \E n \in 1..2 : Evaluate(n)
    \/ EvalLiteral
    \/ EvalBinop
    \/ EvalNameCall
    \/ EvalNameUse
    \/ EvalReturn
    \/ SwitchThread

SpecThreads == InitThreads /\ [][NextThreads]_vars

(* C23: when two threads each evaluate a name of the same workbook, in      *)
(* every interleaving each name's token stream is walked at most once and   *)
(* its memoized fields are written at most once.                            *)
C23_WalkedAndWrittenOnce ==
    (est.calls <= 1 /\ fin.est.calls <= 1) =>
        \A n \in 1..2 : probe[n].walks <= 1 /\ probe[n].writes <= 1

-----------------------------------------------------------------------------
\* the Operand invariant for one stack element
WellFormedOperand(e) ==
    /\ IsOperand(e)
    /\ e.kind \in {oUNK, oMSNG} => e.value = None
    /\ e.kind \in {oREF, oREL} =>
          e.value = None \/ (e.value.t = "refs" /\ Len(e.value.l) >= 1)

(* C24: in every state of the evaluator's stack and in every memoized name  *)
(* result each stack element is an Operand; an operand of kind Unknown or   *)
(* Missing has value None, and an operand of kind AbsoluteRef or            *)
(* RelativeRef has value None or a non-empty list of boxes.                 *)
C24_OperandInvariant ==
    /\ \A i \in 1..Len(frames) : \A j \in 1..Len(frames[i].stack) :
          WellFormedOperand(frames[i].stack[j])
    /\ \A n \in 1..Len(names) :
          names[n].evaluated = 1 =>
             /\ \A j \in 1..Len(names[n].stack) : WellFormedOperand(names[n].stack[j])
             /\ names[n].result # None => WellFormedOperand(names[n].result)

-----------------------------------------------------------------------------
(* SpecFail: the name N1 refers to N2 and then to N3.  N2 is a constant;    *)
(* N3 is a constant, holds a token the size table marks -2 (FormulaError),  *)
(* an operator without operands (AssertionError), or refers to itself (the  *)
(* excessive-indirection error).                                            *)

FailingFormulas(v) ==
    {tIntTok(1), <<48>>, tIntTok(1) \o binopTok(tAdd), tNameTok(3, v)}

InitFail ==
    /\ bv \in {50, 80}
    /\ py3 = TRUE
    /\ bk = NoBook
    /\ \E f3 \in FailingFormulas(bv) :
          names = <<NameObject("N1", tNameTok(2, bv) \o tNameTok(3, bv)),
                    NameObject("N2", tIntTok(1)),
                    NameObject("N3", f3)>>
    /\ frames = <<>>
    /\ est = NoEvaluate
    /\ probe = [i \in 1..3 |-> [walks |-> 0, writes |-> 0]]
    /\ dec = NoDecompile(<<>>, FMLA_TYPE_NAME)
    /\ fin = None
    /\ fout = None

NextFail ==
    \/ \E n \in 1..3 : Evaluate(n)
    \/ EvalLiteral
    \/ EvalBinop
    \/ EvalNameCall
    \/ EvalNameUse
    \/ EvalInvalid
    \/ EvalReturn

SpecFail == InitFail /\ [][NextFail]_vars

(* C25: a step in which evaluate_name_formula raises leaves every field of  *)
(* every name as it was: the name being evaluated and the names on the      *)
(* recursion chain stay unevaluated (or as memoized before), and the names  *)
(* whose evaluation completed before keep their memoized results.  In every *)
(* state a name with evaluated = 1 has been written: its stack is a list    *)
(* and its result is the single operand of that list, or None.              *)
C25_RaiseWritesNothing ==
    /\ [][est'.status = "raised" => names' = names]_vars
    /\ [](\A n \in 1..Len(names) :
             names[n].evaluated = 1 =>
                /\ probe[n].writes >= 1
                /\ Len(names[n].stack) >= 0
                /\ names[n].result = IF Len(names[n].stack) = 1 THEN names[n].stack[1]
                                     ELSE None)

\* N1's evaluation failed in N3 after N2 had been memoized
C25_Witness ==
    /\ Len(names) = 3
    /\ est.status = "raised" /\ est.exc = "FormulaError"
    /\ probe[1].walks = 1 /\ probe[3].walks = 1
    /\ names[1].evaluated = 0 /\ names[1].result = None
    /\ names[3].evaluated = 0
    /\ names[2].evaluated = 1 /\ names[2].result.kind = oNUM

-----------------------------------------------------------------------------
(* SpecOrders: the names of one workbook are submitted to                   *)
(* evaluate_name_formula in one order, then the same workbook, as read from *)
(* the file, has them submitted again.  The workbook is a chain of names:   *)
(* name i refers to name i+1 and the last name holds the literal 1.  fin    *)
(* keeps what the first run recorded.                                       *)

InitOrders ==
    /\ bv \in {50, 80}
    /\ py3 = TRUE
    /\ bk = NoBook
    /\ \E len \in 2..MaxChain : names = NameChain(len, FALSE)
    /\ frames = <<>>
    /\ est = NoEvaluate
    /\ probe = [i \in 1..Len(names) |-> [walks |-> 0, writes |-> 0]]
    /\ dec = NoDecompile(<<>>, FMLA_TYPE_NAME)
    /\ fin = None
    /\ fout = None

\* the first run is over: its record is kept and the workbook is as read again
ReadAgain ==
    /\ fin = None
    /\ frames = <<>>
    /\ est.calls = MaxCalls
    /\ fin' = [names |-> names, probe |-> probe, est |-> est]
    /\ names' = NameChain(Len(names), FALSE)
    /\ probe' = [i \in 1..Len(names) |-> [walks |-> 0, writes |-> 0]]
    /\ est' = NoEvaluate
    /\ UNCHANGED <<bv, py3, bk, frames, dec, fout>>

NextOrders ==
    \/ \E n \in 1..2 : Evaluate(n)
    \/ EvalLiteral
    \/ EvalNameCall
    \/ EvalNameUse
    \/ EvalReturn
    \/ ReadAgain

SpecOrders == InitOrders /\ [][NextOrders]_vars

(* the direct calls of a run were one on name 1 and the others on name 2:   *)
(* no name refers to name 1, so each of its walks is a direct call          *)
SubmittedBoth(p, e) == e.calls = MaxCalls /\ p[1].walks = 1

\* what a run recorded for a name
Outcome(nobj) ==
    [evaluated |-> nobj.evaluated, result |-> nobj.result,
     any_err |-> nobj.any_err, any_rel |-> nobj.any_rel]

(* C26: for a fixed workbook, what is recorded for each name (the result,   *)
(* any_err, any_rel, or nothing after a fatal error) is the same in two     *)
(* runs that submit the same names in different orders.                     *)
C26_OrderIndependent ==
    (/\ fin # None
     /\ frames = <<>>
     /\ SubmittedBoth(fin.probe, fin.est)
     /\ SubmittedBoth(probe, est)) =>
        \A n \in 1..Len(names) : Outcome(names[n]) = Outcome(fin.names[n])

-----------------------------------------------------------------------------
(* SpecTargets: the name N (index 0) refers to the name M (index 1) through *)
(* tName or tNameX; M's formula is empty or leaves 0, 1, 2 or 3 operands.   *)

StackDepthFormulas ==
    {<<>>, tParenTok, tIntTok(1), tIntTok(1) \o tIntTok(3),
     tIntTok(1) \o tIntTok(3) \o tIntTok(4)}

InitTargets ==
    /\ bv \in {50, 80}
    /\ py3 = TRUE
    /\ bk = RefBook(ExternalRef(bv))
    /\ \E fn \in ReferringFormulas(bv), fm \in StackDepthFormulas :
          names = <<NameObject("N", fn), NameObject("M", fm)>>
    /\ frames = <<>>
    /\ est = NoEvaluate
    /\ probe = [i \in 1..2 |-> [walks |-> 0, writes |-> 0]]
    /\ dec = NoDecompile(<<>>, FMLA_TYPE_NAME)
    /\ fin = None
    /\ fout = None

NextTargets ==
    \/ \E n \in 1..2 : Evaluate(n)
    \/ EvalLiteral
    \/ EvalParen
    \/ EvalNameCall
    \/ EvalNameUse
    \/ EvalNameXCall
    \/ EvalNameXUse
    \/ EvalReturn

SpecTargets == InitTargets /\ [][NextTargets]_vars

\* the walk is at a tName or tNameX token whose target M can be read
ReadsTarget ==
    /\ Token({1, 2, 3}, {3, 25})
    /\ names[2].evaluated = 1
    /\ names[2].macro = 0 /\ names[2].binary = 0 /\ names[2].any_err = 0

(* C27: whenever a tName or tNameX reference reads a target that is         *)
(* evaluated and is not macro, binary or any_err, the target's stored stack *)
(* holds exactly one operand and the assertion len(tgtobj.stack) == 1 does  *)
(* not fail, whatever the target's formula left on its stack.               *)
C27_TargetStackIsSingle ==
    [][ReadsTarget =>
          /\ Len(names[2].stack) = 1
          /\ ~(est'.status = "raised" /\ est'.exc = "AssertionError")]_vars

-----------------------------------------------------------------------------
(* C28: constant folding never aborts name evaluation: for every binary     *)
(* operator and every pair of Number/String literal operands, a zero        *)
(* divisor and a String that is not a number under an arithmetic operator   *)
(* included, the call completes, leaves one operand of the operator's       *)
(* declared kind and marks the name evaluated.                              *)
C28_FoldingNeverAborts ==
    (Finished /\ BothLiteral) =>
        /\ est.status = "done"
        /\ names[1].evaluated = 1
        /\ Len(names[1].stack) = 1
        /\ names[1].stack[1].kind = binop_rules(LitOp).kind

-----------------------------------------------------------------------------
(* SpecGrouping: decompile_formula called on the stream of a formula with   *)
(* two binary operators over the literals 1, 2, 3, then on the stream of    *)
(* another such formula.  fin keeps the stream and the text of the first    *)
(* call.                                                                    *)

GroupOps == {tAdd, tSub, tMul}

\* the token stream Excel stores for (1 op1 2) op2 3
LeftGrouped(op1, op2) ==
    tIntTok(1) \o tIntTok(2) \o binopTok(op1) \o tParenTok \o tIntTok(3) \o binopTok(op2)

\* the token stream Excel stores for 1 op1 (2 op2 3)
RightGrouped(op1, op2) ==
    tIntTok(1) \o tIntTok(2) \o tIntTok(3) \o binopTok(op2) \o tParenTok \o binopTok(op1)

GroupedFormulas ==
    {LeftGrouped(op1, op2) : op1 \in GroupOps, op2 \in GroupOps}
    \cup {RightGrouped(op1, op2) : op1 \in GroupOps, op2 \in GroupOps}

InitGrouping ==
    /\ bv \in {70, 80}
    /\ py3 = TRUE
    /\ bk = NoBook
    /\ names = <<>>
    /\ frames = <<>>
    /\ est = NoEvaluate
    /\ probe = <<>>
    /\ \E f \in GroupedFormulas : dec = NoDecompile(f, FMLA_TYPE_CELL)
    /\ fin = None
    /\ fout = None

\* the caller keeps the text it got and calls decompile_formula on another stream
DecompileAnother ==
    /\ fin = None
    /\ dec.status = "returned"
    /\ fin' = [fmla |-> dec.fmla, result |-> dec.result]
    /\ \E g \in GroupedFormulas : dec' = NoDecompile(g, FMLA_TYPE_CELL)
    /\ UNCHANGED <<bv, py3, bk, names, frames, est, probe, fout>>

NextGrouping ==
    \/ Decompile
    \/ DecLiteral
    \/ DecBinop
    \/ DecParen
    \/ DecReturn
    \/ DecompileAnother

SpecGrouping == InitGrouping /\ [][NextGrouping]_vars

(* C29: two streams that encode different groupings of the same operators  *)
(* and operands, such as (1-2)-3 and 1-(2-3), never decompile to the same   *)
(* text.                                                                    *)
C29_GroupingPreserved ==
    (fin # None /\ dec.status = "returned") =>
        \A op1 \in GroupOps, op2 \in GroupOps :
           (fin.fmla = LeftGrouped(op1, op2) /\ dec.fmla = RightGrouped(op1, op2))
              => dec.result # fin.result

-----------------------------------------------------------------------------
(* SpecAgree: evaluate_name_formula and decompile_formula (formula type     *)
(* NAME) over the same stream: a call of COUNT or of the user-defined       *)
(* function (id 255) through tFuncVar with 0 to MaxArgs arguments, or up to *)
(* two tokens out of literals, operators, tParen, tMissArg and tAttr.       *)

AgreeIds == {0, 255}

AgreeAlphabet ==
    {tIntTok(1), binopTok(tAdd), <<tUminus>>, tParenTok, tMissArgTok, tAttrSumTok}

InitAgree ==
    /\ bv \in {30, 80}
    /\ py3 = TRUE
    /\ \E f \in {Call(<<>>, args, funcx) : args \in CallArgLists(MaxArgs), funcx \in AgreeIds}
                \cup TokSeqs(AgreeAlphabet, 2) :
          OneName(f)

NextAgree ==
    \/ Evaluate(1)
    \/ EvalLiteral
    \/ EvalBinop
    \/ EvalUnary
    \/ EvalParen
    \/ EvalMissArg
    \/ EvalAttr
    \/ EvalFuncVar
    \/ EvalReturn
    \/ Decompile
    \/ DecLiteral
    \/ DecBinop
    \/ DecUnary
    \/ DecParen
    \/ DecMissArg
    \/ DecAttr
    \/ DecFuncVar
    \/ DecReturn

SpecAgree == InitAgree /\ [][NextAgree]_vars

(* C30: on the same name-formula stream the two walkers agree: one raises   *)
(* exactly when the other does, one yields no result exactly when the other *)
(* does, and the text of the evaluator's single operand is the text that    *)
(* decompile_formula returns.                                               *)
C30_WalkersAgreeOnText ==
    (est.status \in {"done", "raised"} /\ dec.status \in {"returned", "raised"}) =>
        /\ est.status = "raised" <=> dec.status = "raised"
        /\ est.status = "done" =>
              /\ names[1].result = None <=> dec.result = None
              /\ names[1].result # None => dec.result = Text(names[1].result.text)

====
